---- MODULE Spec2Model ----
(***************************************************************************)
(* A model of the rule-based AMR traversal and ontology disambiguation     *)
(* engine of cdse-covid:                                                   *)
(*   - the Alignment Resolver, the Text Reconstructor and the X-Variable   *)
(*     Rule Engine (semantic_extraction/utils/amr_extraction_utils.py),    *)
(*   - the Claimer Locator's upward search                                 *)
(*     (semantic_extraction/utils/claimer_utils.py),                       *)
(*   - the Ontology Disambiguator (wikidata_linker/disambiguate_with_amr). *)
(*                                                                         *)
(* Conventions.  A Python string on which the code works character by      *)
(* character (node labels, claim templates, ontology names) is a sequence  *)
(* of one-character strings.  A surface text (space-joined tokens) is the  *)
(* sequence of its tokens, so " ".join is concatenation.  Python values    *)
(* that may be None or may be replaced by a raised exception are records   *)
(* tagged by the field k.                                                  *)
(***************************************************************************)
EXTENDS Integers, Sequences, FiniteSets, TLC

VARIABLES
    amr,               \* the AMR graph: [nodes, edges, root, tokens]
    alignments,        \* list of AMR_Alignment: [nodes, tokens]
    claim_template,    \* Claim.claim_template
    x_variable,        \* what identify_x_variable_covid returned (or raised)
    focus_node,        \* get_full_description: focus_node argument
    ignore_focus_node, \* get_full_description: ignore_focus_node argument
    description,       \* what get_full_description returned (or raised)
    cn_stack,          \* get_claim_node_from_token: active calls, innermost last
    checked_nodes,     \* get_claim_node_from_token: the shared checked_nodes set
    cn_calls,          \* get_claim_node_from_token: nodes expanded, in call order
    claim_node,        \* what get_claim_node_from_token returned
    pb,                \* the PropBank label handed to the tie-breaks
    qnode_dicts,       \* the candidate records of that label
    original_master_table, \* qe_master.json: qnode id -> parent ids
    qnode_order,       \* the order in which the set qnode_ids is enumerated
    best_qnode,        \* what get_best_qnode_by_string_similarity returned
    most_general_qnode, \* what get_most_general_qnode returned
    pbs_to_qnodes_master,  \* pb_to_qnode_master.json: label -> candidate records
    pbs_to_qnodes_overlay, \* pb_to_qnode_overlay.json: label -> candidate records
    master_table_exists,   \* pb_to_qnode_master.json is on disk
    overlay_table_exists,  \* pb_to_qnode_overlay.json is on disk
    claim_semantics,       \* what disambiguate_with_amr returned
    node_to_token_dict,    \* what create_node_to_token_dict returned
    master_generated,      \* how often generate_master_dict has run
    overlay_generated,     \* how often generate_overlay_dict has run
    calls_made,            \* the calls of disambiguate_with_amr so far
    workers,               \* concurrent disambiguate_with_amr calls: worker -> frame
    master_written,        \* chunks of pb_to_qnode_master.json that are on disk
    overlay_written,       \* chunks of pb_to_qnode_overlay.json that are on disk
    labeled_args,          \* get_wikidata_for_labeled_args: args, as (role, text) pairs
    kgtk,                  \* what disambiguate_kgtk answers for a text
    kgtk_calls,            \* the texts disambiguate_kgtk was called for, in call order
    args_to_qnodes,        \* what get_wikidata_for_labeled_args returned (or raised)
    full_claimer,          \* remove_speech_tags: claimer, the phrase as its words (or None)
    spacied_claim_sentence,\* the annotated claim sentence: [text, pos_] per token
    arg_node,              \* what remove_speech_tags returned
    tokens_to_offsets,     \* the claim's token -> character offsets table (or None)
    offsets_text,          \* Claim.get_offsets_for_text: text of the latest call, as tokens
    offsets_result,        \* what the latest call returned
    first_results,         \* text -> what the first call for that text returned
    offsets_calls          \* the calls of get_offsets_for_text so far

graph_vars == <<amr, alignments>>
x_vars == <<claim_template, x_variable>>
descr_vars == <<focus_node, ignore_focus_node, description>>
cn_vars == <<cn_stack, checked_nodes, cn_calls, claim_node>>
q_vars == <<pb, qnode_dicts, original_master_table, qnode_order, best_qnode,
            most_general_qnode>>
d_vars == <<pbs_to_qnodes_master, pbs_to_qnodes_overlay, master_table_exists,
            overlay_table_exists, claim_semantics>>
a_vars == <<node_to_token_dict>>
c_vars == <<master_generated, overlay_generated, calls_made>>
w_vars == <<workers, master_written, overlay_written>>
k_vars == <<labeled_args, kgtk, kgtk_calls, args_to_qnodes>>
s_vars == <<full_claimer, spacied_claim_sentence, arg_node>>
o_vars == <<tokens_to_offsets, offsets_text, offsets_result, first_results, offsets_calls>>
e_vars == <<w_vars, k_vars, s_vars, o_vars>>
vars == <<graph_vars, x_vars, descr_vars, cn_vars, q_vars, d_vars, a_vars, c_vars,
          e_vars>>

-----------------------------------------------------------------------------
(* Python values *)

None == [k |-> "None"]
Str(s) == [k |-> "str", v |-> s]
Raise(e) == [k |-> "raise", v |-> e]
XVariable(t) == [k |-> "XVariable", text |-> t]
Pending == [k |-> "pending"]
Idle == [k |-> "idle"]

Range(s) == {s[i] : i \in 1..Len(s)}
Min(S) == CHOOSE x \in S : \A y \in S : x <= y
Max(S) == CHOOSE x \in S : \A y \in S : x >= y

RECURSIVE Flatten(_)
Flatten(ss) == IF ss = <<>> THEN <<>> ELSE Head(ss) \o Flatten(Tail(ss))

Reverse(s) == [i \in 1..Len(s) |-> s[Len(s) + 1 - i]]

-----------------------------------------------------------------------------
(* Character-level strings *)

Lower == {"a", "b", "c", "d", "e", "f", "g", "h", "i", "j", "k", "l", "m",
          "n", "o", "p", "q", "r", "s", "t", "u", "v", "w", "x", "y", "z"}
Digit == {"0", "1", "2", "3", "4", "5", "6", "7", "8", "9"}

\* sub in s
Contains(s, sub) ==
    \E i \in 0..(Len(s) - Len(sub)) : SubSeq(s, i + 1, i + Len(sub)) = sub
\* s.startswith(sub)
StartsWith(s, sub) == Len(sub) <= Len(s) /\ SubSeq(s, 1, Len(sub)) = sub
\* s.endswith(sub)
EndsWith(s, sub) ==
    Len(sub) <= Len(s) /\ SubSeq(s, Len(s) - Len(sub) + 1, Len(s)) = sub

\* re.match(PROPBANK_PATTERN, label) with PROPBANK_PATTERN = [a-z]*-[0-9]{2}:
\* the longest run of lower-case letters at the start, then a hyphen and two
\* digits (the hyphen is not a lower-case letter, so no shorter run can match).
PROPBANK_PATTERN(label) ==
    LET n == Len(label)
        stops == {i \in 1..n : label[i] \notin Lower}
        p == IF stops = {} THEN n + 1 ELSE Min(stops)
    IN  /\ p + 2 <= n
        /\ label[p] = "-"
        /\ label[p + 1] \in Digit
        /\ label[p + 2] \in Digit

S_facility_X == <<"f", "a", "c", "i", "l", "i", "t", "y", "-", "X">>
S_location_X == <<"l", "o", "c", "a", "t", "i", "o", "n", "-", "X">>
S_place_X == <<"p", "l", "a", "c", "e", "-", "X">>
S_person_X == <<"p", "e", "r", "s", "o", "n", "-", "X">>
S_is_X == <<"i", "s", " ", "X">>
S_X_was_the_target == <<"X", " ", "w", "a", "s", " ", "t", "h", "e", " ", "t", "a", "r", "g", "e", "t">>
S_X_negative_effect == <<"X", " ", "n", "e", "g", "a", "t", "i", "v", "e", " ", "e", "f", "f", "e", "c", "t">>
S_Government_X == <<"G", "o", "v", "e", "r", "n", "m", "e", "n", "t", "-", "X">>
S_date_X == <<"d", "a", "t", "e", "-", "X">>
S_Treatment_X == <<"T", "r", "e", "a", "t", "m", "e", "n", "t", "-", "X">>
S_effective_treatment == <<"e", "f", "f", "e", "c", "t", "i", "v", "e", " ", "t", "r", "e", "a", "t", "m", "e", "n", "t">>
S_medication_X == <<"m", "e", "d", "i", "c", "a", "t", "i", "o", "n", " ", "X">>
S_Animal_X == <<"A", "n", "i", "m", "a", "l", "-", "X">>
S_X_cures_COVID_19 == <<"X", " ", "c", "u", "r", "e", "s", " ", "C", "O", "V", "I", "D", "-", "1", "9">>

L_cure_01 == <<"c", "u", "r", "e", "-", "0", "1">>
L_country == <<"c", "o", "u", "n", "t", "r", "y">>
L_city == <<"c", "i", "t", "y">>
L_state == <<"s", "t", "a", "t", "e">>
L_continent == <<"c", "o", "n", "t", "i", "n", "e", "n", "t">>
L_person == <<"p", "e", "r", "s", "o", "n">>
L_target_01 == <<"t", "a", "r", "g", "e", "t", "-", "0", "1">>
L_affect_01 == <<"a", "f", "f", "e", "c", "t", "-", "0", "1">>
L_government_organization == <<"g", "o", "v", "e", "r", "n", "m", "e", "n", "t", "-", "o", "r", "g", "a", "n", "i", "z", "a", "t", "i", "o", "n">>
L_date_entity == <<"d", "a", "t", "e", "-", "e", "n", "t", "i", "t", "y">>
L_treat_03 == <<"t", "r", "e", "a", "t", "-", "0", "3">>
L_shorten_01 == <<"s", "h", "o", "r", "t", "e", "n", "-", "0", "1">>
L_prevent_01 == <<"p", "r", "e", "v", "e", "n", "t", "-", "0", "1">>
L_approve_01 == <<"a", "p", "p", "r", "o", "v", "e", "-", "0", "1">>
L_safe_01 == <<"s", "a", "f", "e", "-", "0", "1">>
L_thing == <<"t", "h", "i", "n", "g">>
L_say_01 == <<"s", "a", "y", "-", "0", "1">>

place_variables == {S_facility_X, S_location_X, S_place_X}
place_types == {L_city, L_state, L_country, L_continent}

-----------------------------------------------------------------------------
(* The AMR graph (amr_utils.AMR as this code uses it).  Nodes are numbered  *)
(* 1..Len(nodes) in the enumeration order of amr.nodes; an edge is          *)
(* <<parent, role, child>>.                                                 *)

NodesOf(g) == 1..Len(g.nodes)

\* amr.edge_mapping()[node].get(role): the children of node under role, in
\* edge order (the empty sequence where Python has None).
Children(g, node, role) ==
    LET es == SelectSeq(g.edges, LAMBDA e : e[1] = node /\ e[2] = role)
    IN  [i \in 1..Len(es) |-> es[i][3]]

\* amr.edge_mapping()[node].values(), flattened: the children of node
\* grouped by role, roles in order of first appearance.
RECURSIVE GroupByRole(_)
GroupByRole(es) ==
    IF es = <<>> THEN <<>>
    ELSE LET r == Head(es)[2]
             same == SelectSeq(es, LAMBDA e : e[2] = r)
             rest == SelectSeq(es, LAMBDA e : e[2] # r)
         IN  [i \in 1..Len(same) |-> same[i][3]] \o GroupByRole(rest)

edge_mapping_values(g, node) ==
    GroupByRole(SelectSeq(g.edges, LAMBDA e : e[1] = node))

\* amr.get_parents_for_node(node): the parents of node, in edge order.
get_parents_for_node(g, node) ==
    LET es == SelectSeq(g.edges, LAMBDA e : e[3] = node)
    IN  [i \in 1..Len(es) |-> es[i][1]]

\* the index of the first edge satisfying Test, 0 if there is none
FirstEdge(g, Test(_)) ==
    LET hits == {i \in 1..Len(g.edges) : Test(g.edges[i])}
    IN  IF hits = {} THEN 0 ELSE Min(hits)

-----------------------------------------------------------------------------
(* Alignment Resolver *)

PunctTokens == {",", ".", "!", "?"}

\* the tokens one alignment contributes to node: all its non-punctuation
\* tokens, once per occurrence of node in the alignment's node list
AlignmentTokens(g, al, node) ==
    LET toks == [i \in 1..Len(al.tokens) |-> g.tokens[al.tokens[i]]]
        kept == SelectSeq(toks, LAMBDA t : t \notin PunctTokens)
        occ == SelectSeq(al.nodes, LAMBDA n : n = node)
    IN  Flatten([i \in 1..Len(occ) |-> kept])

create_node_to_token_dict(g, als) ==
    LET lists == [n \in NodesOf(g) |->
                    Flatten([i \in 1..Len(als) |-> AlignmentTokens(g, als[i], n)])]
        keys == {n \in NodesOf(g) : lists[n] # <<>>}
    IN  [n \in keys |-> lists[n]]

-----------------------------------------------------------------------------
(* Text Reconstructor *)

\* nodes_to_strings[n] for every n of ns, or the KeyError of a missing one
HasAll(n2s, ns) == \A i \in 1..Len(ns) : ns[i] \in DOMAIN n2s

get_full_name_value(g, n2s, named_node) ==
    LET name_nodes == Children(g, named_node, ":name")
    IN  IF name_nodes = <<>> THEN None
        ELSE IF ~HasAll(n2s, name_nodes) THEN Raise("KeyError")
        ELSE Str(Flatten([i \in 1..Len(name_nodes) |-> n2s[name_nodes[i]]]))

\* CPython's recursion limit, scaled to the model: no descent that visits
\* every node of the graph once reaches it.
RecursionLimit(g) == Len(g.nodes) + 1

\* the else branch reduced to its :mod texts, the focus text never added
DescribeModifiers_focus_dropped(g, n2s, focus, ignore) ==
    LET mods == Children(g, focus, ":mod")
    IN  IF ~HasAll(n2s, <<focus>> \o mods) THEN Raise("KeyError")
        ELSE Str(Flatten(Reverse([i \in 1..Len(mods) |-> n2s[mods[i]]])))

\* the else branch (lines 67-98): the focus node is no PropBank frame
DescribeModifiers(g, n2s, focus, ignore) ==
    LET mods == Children(g, focus, ":mod")
        co == Children(g, focus, ":consist-of")
        a1of == Children(g, focus, ":ARG1-of")
        op_of == Children(g, focus, ":op1")
        firsts(l) == IF l = <<>> THEN <<>> ELSE <<l[1]>>
        plain == mods = <<>> /\ co = <<>> /\ a1of = <<>>
        read == mods \o firsts(co) \o firsts(a1of)
                  \o (IF plain THEN firsts(op_of) ELSE <<>>)
    IN  IF ~HasAll(n2s, <<focus>> \o read) THEN Raise("KeyError")
        ELSE
        LET focus_string == n2s[focus]
            d1 == Reverse([i \in 1..Len(mods) |-> n2s[mods[i]]])
            add(d, l) == IF l # <<>> /\ n2s[l[1]] \notin Range(d)
                         THEN <<n2s[l[1]]>> \o d ELSE d
            d2 == add(d1, co)
            d3 == add(d2, a1of)
            d4 == IF op_of # <<>> /\ d3 = <<>>
                  THEN (IF ~ignore THEN <<focus_string>> ELSE <<>>)
                         \o <<n2s[op_of[1]]>>
                  ELSE IF ~ignore /\ focus_string \notin Range(d3)
                       THEN Append(d3, focus_string)
                       ELSE d3
        IN  Str(Flatten(d4))

\* get_full_description that puts the :ARG1 description before the focus text
RECURSIVE get_full_description_arg1_first(_, _, _, _, _)
get_full_description_arg1_first(g, n2s, focus, ignore, depth) ==
    IF depth > RecursionLimit(g) THEN Raise("RecursionError")
    ELSE IF focus \notin DOMAIN n2s THEN Raise("KeyError")
    ELSE IF PROPBANK_PATTERN(g.nodes[focus]) THEN
        LET focus_string == n2s[focus]
            arg1 == Children(g, focus, ":ARG1")
            arg_description ==
                IF arg1 = <<>> THEN Str(<<>>)
                ELSE get_full_description_arg1_first(g, n2s, arg1[1], FALSE,
                                                     depth + 1)
        IN  IF arg_description.k = "raise" THEN arg_description
            ELSE IF arg_description.v = <<>> THEN Str(focus_string)
            ELSE IF arg_description.v = focus_string THEN arg_description
            ELSE Str(arg_description.v \o focus_string)
    ELSE DescribeModifiers(g, n2s, focus, ignore)

RECURSIVE get_full_description(_, _, _, _, _)
get_full_description(g, n2s, focus, ignore, depth) ==
    IF depth > RecursionLimit(g) THEN Raise("RecursionError")
    ELSE IF focus \notin DOMAIN n2s THEN Raise("KeyError")
    ELSE IF PROPBANK_PATTERN(g.nodes[focus]) THEN
        LET focus_string == n2s[focus]
            arg1 == Children(g, focus, ":ARG1")
            arg_description ==
                IF arg1 = <<>> THEN Str(<<>>)
                ELSE get_full_description(g, n2s, arg1[1], FALSE, depth + 1)
        IN  IF arg_description.k = "raise" THEN arg_description
            ELSE IF arg_description.v = <<>> THEN Str(focus_string)
            ELSE IF arg_description.v = focus_string THEN arg_description
            ELSE Str(focus_string \o arg_description.v)
    ELSE DescribeModifiers(g, n2s, focus, ignore)

-----------------------------------------------------------------------------
(* X-Variable Rule Engine: identify_x_variable_covid.  Only the text of the *)
(* returned XVariable is modelled; its span is a lookup that does not       *)
(* change which rule answers.                                               *)

\* the marker of a rule whose loop ended without a return
NoReturn == [k |-> "no-return"]

\* XVariable(text=<r>) where r is a returned string, or r's exception
XV(r) == IF r.k = "raise" THEN r ELSE XVariable(r)

\* "XVariable(text=name) if name else XVariable(text=get_full_description(..))"
NameOrDescription(g, n2s, node, ignore) ==
    LET name == get_full_name_value(g, n2s, node)
    IN  IF name.k = "raise" THEN name
        ELSE IF name.k = "str" /\ name.v # <<>> THEN XVariable(name)
        ELSE XV(get_full_description(g, n2s, node, ignore, 1))

\* lines 206-217: the place name of a government-organization's child,
\* "up to two steps down"
GovernmentName(g, n2s, child) ==
    IF g.nodes[child] \in place_types THEN get_full_name_value(g, n2s, child)
    ELSE LET values == edge_mapping_values(g, child)
             places == SelectSeq(values, LAMBDA v : g.nodes[v] \in place_types)
             names == [i \in 1..Len(places) |->
                         get_full_name_value(g, n2s, places[i])]
         IN  IF places = <<>> THEN None
             ELSE IF \E i \in 1..Len(names) : names[i].k = "raise"
                  THEN Raise("KeyError")
             ELSE names[Len(names)]

\* line 203 with the test left out
add_gov_token_never(g) == FALSE
\* line 203: add_gov_token = "government" in amr.tokens
add_gov_token(g) == "government" \in Range(g.tokens)

mislablled_treatment(g, parent, role) ==
    g.nodes[parent] = L_treat_03 /\ role = ":ARG1"
treatment_in_arg3(g, parent, role) ==
    g.nodes[parent] = L_treat_03 /\ role = ":ARG3"
shortens_infection(g, parent, role) ==
    g.nodes[parent] = L_shorten_01 /\ role = ":ARG0"
prevents_death(g, parent, role) ==
    g.nodes[parent] = L_prevent_01 /\ role = ":ARG0"
treatment_is_approved(g, parent, role) ==
    g.nodes[parent] = L_approve_01 /\ role = ":ARG1"

\* line 280: the "agent" of cure-01 is ARG3
agent_role_always_ARG0(t) == ":ARG0"
agent_role(t) == IF t = S_X_cures_COVID_19 THEN ":ARG3" ELSE ":ARG0"

\* The rule table, in the order of the if-statements of lines 133-303.
NumRules == 12

\* the template test of rule r
RuleTest(r, t) ==
    CASE r = 1 -> \E place_term \in place_variables : Contains(t, place_term)
      [] r = 2 -> Contains(t, S_person_X)
      [] r = 3 -> EndsWith(t, S_is_X)
      [] r = 4 -> StartsWith(t, S_X_was_the_target)
      [] r = 5 -> Contains(t, S_X_negative_effect)
      [] r = 6 -> Contains(t, S_Government_X)
      [] r = 7 -> Contains(t, S_date_X)
      [] r = 8 -> Contains(t, S_Treatment_X) \/ Contains(t, S_effective_treatment)
      [] r = 9 -> Contains(t, S_medication_X)
      [] r = 10 -> Contains(t, S_Animal_X)
      [] r = 11 -> t[1] = "X"
      [] r = 12 -> t[Len(t)] = "X"

\* the body of rule r: what it returns (or raises), NoReturn if control
\* leaves the if-statement without returning
RuleBody(r, g, n2s, t) ==
    CASE r = 1 ->
           LET i == FirstEdge(g, LAMBDA e : \/ e[2] = ":location"
                                            \/ e[2] = ":source"
                                            \/ g.nodes[e[3]] \in place_types)
           IN  IF i = 0 THEN NoReturn
               ELSE NameOrDescription(g, n2s, g.edges[i][3], FALSE)
      [] r = 2 ->
           LET i == FirstEdge(g, LAMBDA e : g.nodes[e[3]] = L_person)
           IN  IF i = 0 THEN NoReturn
               ELSE LET name == get_full_name_value(g, n2s, g.edges[i][3])
                    IN  IF name.k = "raise" THEN name
                        ELSE IF name.k = "str" THEN XVariable(name)
                        ELSE XVariable(Str(<<"person">>))
      [] r = 3 -> XV(get_full_description(g, n2s, g.root, FALSE, 1))
      [] r = 4 ->
           LET i == FirstEdge(g, LAMBDA e : /\ g.nodes[e[1]] = L_target_01
                                            /\ e[2] = ":ARG1")
           IN  IF i = 0 THEN NoReturn
               ELSE NameOrDescription(g, n2s, g.edges[i][3], TRUE)
      [] r = 5 ->
           LET i == FirstEdge(g, LAMBDA e : g.nodes[e[1]] = L_affect_01)
           IN  IF i = 0 THEN NoReturn
               ELSE XV(get_full_description(g, n2s, g.edges[i][1], TRUE, 1))
      [] r = 6 ->
           LET i == FirstEdge(g, LAMBDA e :
                        \/ g.nodes[e[1]] = L_government_organization
                        \/ e[2] = ":ARG0" /\ g.nodes[e[3]] \in place_types)
           IN  IF i = 0 THEN NoReturn
               ELSE IF g.nodes[g.edges[i][1]] = L_government_organization
               THEN LET full_name == GovernmentName(g, n2s, g.edges[i][3])
                    IN  IF full_name.k = "raise" THEN full_name
                        ELSE IF full_name.k = "str" /\ full_name.v # <<>>
                           /\ add_gov_token(g)
                        THEN XVariable(Str(full_name.v \o <<"government">>))
                        ELSE XVariable(full_name)
               ELSE XV(get_full_name_value(g, n2s, g.edges[i][3]))
      [] r = 7 ->
           LET dates == {n \in NodesOf(g) : g.nodes[n] = L_date_entity}
           IN  IF dates = {} THEN NoReturn
               ELSE XV(get_full_description(g, n2s, Min(dates), FALSE, 1))
      [] r = 8 ->
           LET i == FirstEdge(g, LAMBDA e :
                        \/ mislablled_treatment(g, e[1], e[2])
                        \/ treatment_in_arg3(g, e[1], e[2])
                        \/ shortens_infection(g, e[1], e[2])
                        \/ prevents_death(g, e[1], e[2])
                        \/ treatment_is_approved(g, e[1], e[2]))
           IN  IF i = 0 THEN NoReturn
               ELSE XV(get_full_description(g, n2s, g.edges[i][3], FALSE, 1))
      [] r = 9 ->
           LET i == FirstEdge(g, LAMBDA e : /\ g.nodes[e[1]] = L_safe_01
                                            /\ e[2] = ":ARG1")
           IN  IF i = 0 THEN NoReturn
               ELSE XV(get_full_description(g, n2s, g.edges[i][3], FALSE, 1))
      [] r = 10 ->
           LET arg1_values == Children(g, g.root, ":ARG1")
           IN  IF arg1_values = <<>> THEN NoReturn
               ELSE XV(get_full_description(g, n2s, arg1_values[1], FALSE, 1))
      [] r = 11 ->
           LET i == FirstEdge(g, LAMBDA e : e[1] = g.root /\ e[2] = agent_role(t))
           IN  IF i = 0 THEN NoReturn
               ELSE NameOrDescription(g, n2s, g.edges[i][3], FALSE)
      [] r = 12 ->
           LET i == FirstEdge(g, LAMBDA e : e[1] = g.root /\ e[2] = ":ARG1")
           IN  IF i = 0 THEN NoReturn
               ELSE NameOrDescription(g, n2s, g.edges[i][3], FALSE)

\* the if-statements from rule r on: a rule whose test fails, or whose body
\* does not return, hands control to the next one; line 304 returns None
RECURSIVE RulesFrom_first_match_only(_, _, _, _)
RulesFrom_first_match_only(r, g, n2s, t) ==
    IF r > NumRules THEN None
    ELSE IF RuleTest(r, t)
         THEN (IF RuleBody(r, g, n2s, t) = NoReturn THEN None
               ELSE RuleBody(r, g, n2s, t))
         ELSE RulesFrom_first_match_only(r + 1, g, n2s, t)

RECURSIVE RulesFrom(_, _, _, _)
RulesFrom(r, g, n2s, t) ==
    IF r > NumRules THEN None
    ELSE IF RuleTest(r, t) /\ RuleBody(r, g, n2s, t) # NoReturn
         THEN RuleBody(r, g, n2s, t)
         ELSE RulesFrom(r + 1, g, n2s, t)

identify_x_variable_covid(g, als, t) ==
    IF t = <<>> THEN None
    ELSE RulesFrom(1, g, create_node_to_token_dict(g, als), t)

-----------------------------------------------------------------------------
(* Inputs: bounded families of graphs, alignments and templates *)

MaxXEdges == 2

T_X_cures == S_X_cures_COVID_19
T_location == <<"f", "r", "o", "m", " ", "l", "o", "c", "a", "t", "i", "o", "n", "-", "X">>
T_is_X == <<"i", "t", " ", "i", "s", " ", "X">>
T_target == S_X_was_the_target
T_government == <<"G", "o", "v", "e", "r", "n", "m", "e", "n", "t", "-", "X", " ", "l", "i", "e", "d">>
T_person_last == <<"p", "e", "r", "s", "o", "n", "-", "X", " ", "m", "e", "t", " ", "X">>
XTemplates == {<<>>, T_X_cures, T_location, T_is_X, T_target, T_government,
               T_person_last}

XRootLabels == {L_cure_01, L_target_01, L_government_organization}
XLabels == {L_country, L_person, L_thing}
XRoles == {":ARG0", ":ARG1", ":ARG3", ":location", ":name"}
XNodeIds == 1..3

\* the sentences: token i is what node i aligns to
Sentences == {<<"China", "WHO", "Wuhan">>,
              <<"China", "government", "Wuhan", ".">>}

SeqsUpTo(S, n) == UNION {[1..m -> S] : m \in 0..n}

\* one alignment per aligned node, node i to token i
AlignmentOf(aligned) ==
    LET RECURSIVE build(_)
        build(i) == IF i > Max(XNodeIds) THEN <<>>
                    ELSE (IF i \in aligned
                          THEN <<[nodes |-> <<i>>, tokens |-> <<i>>]>>
                          ELSE <<>>) \o build(i + 1)
    IN  build(1)

\* the root's edges carry any role; node 2 has node 3 as a name or a location
XEdges == {e \in XNodeIds \X XRoles \X XNodeIds :
             \/ e[1] = 1 /\ e[3] > 1
             \/ e[1] = 2 /\ e[3] = 3 /\ e[2] \in {":name", ":location"}}

XGraphs ==
    {[nodes |-> <<l1, l2, l3>>, edges |-> es, root |-> 1, tokens |-> toks] :
        l1 \in XRootLabels, l2 \in XLabels, l3 \in {L_country, L_thing},
        es \in SeqsUpTo(XEdges, MaxXEdges), toks \in Sentences}

XIdle == claim_template = Idle /\ x_variable = Idle
DescrIdle == focus_node = Idle /\ ignore_focus_node = Idle /\ description = Idle
CnIdle == cn_stack = Idle /\ checked_nodes = Idle /\ cn_calls = Idle
            /\ claim_node = Idle
GraphIdle == amr = Idle /\ alignments = Idle
AlignIdle == node_to_token_dict = Idle
CallsIdle == master_generated = Idle /\ overlay_generated = Idle
             /\ calls_made = Idle
WorkersIdle == workers = Idle /\ master_written = Idle /\ overlay_written = Idle
ArgsIdle == /\ labeled_args = Idle /\ kgtk = Idle /\ kgtk_calls = Idle
            /\ args_to_qnodes = Idle
SpeechIdle == /\ full_claimer = Idle /\ spacied_claim_sentence = Idle
              /\ arg_node = Idle
OffsetsIdle == /\ tokens_to_offsets = Idle /\ offsets_text = Idle
               /\ offsets_result = Idle /\ first_results = Idle
               /\ offsets_calls = Idle
ExtIdle == WorkersIdle /\ ArgsIdle /\ SpeechIdle /\ OffsetsIdle
DisIdle == /\ pbs_to_qnodes_master = Idle /\ pbs_to_qnodes_overlay = Idle
           /\ master_table_exists = Idle /\ overlay_table_exists = Idle
           /\ claim_semantics = Idle
QIdle == /\ pb = Idle /\ qnode_dicts = Idle /\ original_master_table = Idle
         /\ qnode_order = Idle /\ best_qnode = Idle /\ most_general_qnode = Idle

-----------------------------------------------------------------------------
(* SpecX: one call of identify_x_variable_covid *)

InitX ==
    /\ amr \in XGraphs
    /\ alignments \in {AlignmentOf(XNodeIds), AlignmentOf(XNodeIds \ {3})}
    /\ claim_template \in XTemplates
    /\ x_variable = Pending
    /\ DescrIdle /\ CnIdle /\ QIdle /\ DisIdle
    /\ AlignIdle /\ CallsIdle /\ ExtIdle

IdentifyXVariable ==
    /\ x_variable = Pending
    /\ x_variable' = identify_x_variable_covid(amr, alignments, claim_template)
    /\ UNCHANGED <<a_vars, c_vars, e_vars, d_vars, graph_vars, claim_template, descr_vars, cn_vars, q_vars>>

NextX == IdentifyXVariable

SpecX == InitX /\ [][NextX]_vars

-----------------------------------------------------------------------------
(* SpecGov: one call of identify_x_variable_covid for a "Government-X"      *)
(* template, on graphs whose places carry their name one edge further down  *)

MaxGovEdges == 3

GovSentences == {<<"WHO", "said", "Wuhan", "China">>,
                 <<"government", "said", "Wuhan", "China">>}
GovEdges == {<<1, ":ARG0", 2>>, <<1, ":ARG1", 2>>, <<2, ":mod", 3>>,
             <<2, ":name", 4>>, <<3, ":name", 4>>}
GovGraphs ==
    {[nodes |-> <<l1, l2, l3, L_thing>>, edges |-> es, root |-> 1,
      tokens |-> toks] :
        l1 \in {L_government_organization, L_say_01},
        l2 \in {L_government_organization, L_country, L_thing},
        l3 \in {L_country, L_thing},
        es \in {l \in SeqsUpTo(GovEdges, MaxGovEdges) :
                  \A i, j \in 1..Len(l) : l[i] = l[j] => i = j},
        toks \in GovSentences}

InitGov ==
    /\ amr \in GovGraphs
    /\ alignments \in
          {[i \in 1..n |-> [nodes |-> <<i>>, tokens |-> <<i>>]] : n \in {3, 4}}
    /\ claim_template = T_government
    /\ x_variable = Pending
    /\ DescrIdle /\ CnIdle /\ QIdle /\ DisIdle
    /\ AlignIdle /\ CallsIdle /\ ExtIdle

SpecGov == InitGov /\ [][NextX]_vars

-----------------------------------------------------------------------------
(* SpecDescr: one call of get_full_description *)

MaxDEdges == 2

DLabels == {L_treat_03, L_thing}
DRoles == {":ARG1", ":mod", ":consist-of", ":ARG1-of", ":op1"}
DNodeIds == 1..3
\* nodes 1 and 2 may be the parent of any node under a role the description
\* reads (cycles included) and the :ARG0 parent of node 3; node 3 is a leaf
DEdges == ({1, 2} \X DRoles \X DNodeIds) \cup ({1, 2} \X {":ARG0"} \X {3})

DGraphs ==
    {[nodes |-> <<l1, l2, L_thing>>, edges |-> es, root |-> 1,
      tokens |-> <<"salt", "water", "drink">>] :
        l1 \in DLabels, l2 \in DLabels, es \in SeqsUpTo(DEdges, MaxDEdges)}

InitDescr ==
    /\ amr \in DGraphs
    /\ alignments \in {AlignmentOf(DNodeIds), AlignmentOf(DNodeIds \ {3})}
    /\ focus_node \in {1, 2}
    /\ ignore_focus_node \in BOOLEAN
    /\ description = Pending
    /\ XIdle /\ CnIdle /\ QIdle /\ DisIdle
    /\ AlignIdle /\ CallsIdle /\ ExtIdle

Describe ==
    /\ description = Pending
    /\ description' = get_full_description(
                          amr, create_node_to_token_dict(amr, alignments),
                          focus_node, ignore_focus_node, 1)
    /\ UNCHANGED <<a_vars, c_vars, e_vars, d_vars, graph_vars, focus_node, ignore_focus_node, x_vars, cn_vars,
                   q_vars>>

NextDescr == Describe

SpecDescr == InitDescr /\ [][NextDescr]_vars

-----------------------------------------------------------------------------
(* Claimer Locator: the upward search get_claim_node_from_token.  The       *)
(* recursion is run one loop iteration at a time: cn_stack holds a frame    *)
(* [node, i] for every active call, i being the position in                 *)
(* get_parents_for_node(node) the for-loop has reached.                     *)

\* label.rsplit("-", 1)[0]
rsplit_head(label) ==
    LET hy == {i \in 1..Len(label) : label[i] = "-"}
    IN  IF hy = {} THEN label ELSE SubSeq(label, 1, Max(hy) - 1)

\* verbs of the FrameNet frames Statement and Reasoning (a sample of them)
FRAMENET_VERBS == {<<"s", "a", "y">>, <<"c", "l", "a", "i", "m">>,
                   <<"a", "r", "g", "u", "e">>}

\* line 89 without the rsplit of line 88
is_desired_framenet_node_whole_label(node_label) == node_label \in FRAMENET_VERBS
is_desired_framenet_node(node_label) == rsplit_head(node_label) \in FRAMENET_VERBS

\* line 109: checked_nodes.add(parent_node)
add_checked_forgotten(checked, parent_node) == checked
add_checked(checked, parent_node) == checked \cup {parent_node}

MaxCnEdges == 3

CnLabels == {L_say_01, L_thing}
CnNodeIds == 1..3
CnEdges == CnNodeIds \X {":ARG0"} \X CnNodeIds

CnGraphs ==
    {[nodes |-> <<l1, l2, l3>>, edges |-> es, root |-> 1,
      tokens |-> <<"he", "said", "so">>] :
        l1 \in CnLabels, l2 \in CnLabels, l3 \in CnLabels,
        es \in {s \in SeqsUpTo(CnEdges, MaxCnEdges) :
                  \A i, j \in 1..Len(s) : i # j => s[i] # s[j]}}

InitCn ==
    /\ amr \in CnGraphs
    /\ alignments = AlignmentOf(CnNodeIds)
    /\ \E node \in CnNodeIds :
          /\ cn_stack = <<[node |-> node, i |-> 1]>>
          /\ cn_calls = <<node>>
    /\ checked_nodes = {}
    /\ claim_node = Pending
    /\ XIdle /\ DescrIdle /\ QIdle /\ DisIdle
    /\ AlignIdle /\ CallsIdle /\ ExtIdle

CnTop == cn_stack[Len(cn_stack)]
CnParents == get_parents_for_node(amr, CnTop.node)
CnParent == CnParents[CnTop.i]
CnRunning == claim_node = Pending /\ cn_stack # <<>>
CnAdvance(stack) ==
    [stack EXCEPT ![Len(stack)] = [@ EXCEPT !.i = @ + 1]]

\* lines 105-106: the parent was checked before
CnSkipChecked ==
    /\ CnRunning /\ CnTop.i <= Len(CnParents)
    /\ CnParent \in checked_nodes
    /\ cn_stack' = CnAdvance(cn_stack)
    /\ UNCHANGED <<checked_nodes, cn_calls, claim_node>>
    /\ UNCHANGED <<a_vars, c_vars, e_vars, d_vars, graph_vars, x_vars, descr_vars, q_vars>>

\* lines 107-108: the parent is a statement/reasoning node; every active
\* call returns it (lines 111-112)
CnFound ==
    /\ CnRunning /\ CnTop.i <= Len(CnParents)
    /\ CnParent \notin checked_nodes
    /\ is_desired_framenet_node(amr.nodes[CnParent])
    /\ claim_node' = Str(CnParent)
    /\ cn_stack' = <<>>
    /\ UNCHANGED <<checked_nodes, cn_calls>>
    /\ UNCHANGED <<a_vars, c_vars, e_vars, d_vars, graph_vars, x_vars, descr_vars, q_vars>>

\* lines 109-110: mark the parent and search upward from it
CnRecurse ==
    /\ CnRunning /\ CnTop.i <= Len(CnParents)
    /\ CnParent \notin checked_nodes
    /\ ~is_desired_framenet_node(amr.nodes[CnParent])
    /\ checked_nodes' = add_checked(checked_nodes, CnParent)
    /\ IF Len(cn_stack) + 1 > RecursionLimit(amr)
       THEN /\ claim_node' = Raise("RecursionError")
            /\ cn_stack' = <<>>
            /\ UNCHANGED cn_calls
       ELSE /\ cn_stack' = Append(cn_stack, [node |-> CnParent, i |-> 1])
            /\ cn_calls' = Append(cn_calls, CnParent)
            /\ UNCHANGED claim_node
    /\ UNCHANGED <<a_vars, c_vars, e_vars, d_vars, graph_vars, x_vars, descr_vars, q_vars>>

\* line 113: the loop is over, return None; the caller's loop goes on
\* (next_check is falsy)
CnReturnNone ==
    /\ CnRunning /\ CnTop.i > Len(CnParents)
    /\ IF Len(cn_stack) = 1
       THEN /\ claim_node' = None
            /\ cn_stack' = <<>>
       ELSE /\ cn_stack' = CnAdvance(SubSeq(cn_stack, 1, Len(cn_stack) - 1))
            /\ UNCHANGED claim_node
    /\ UNCHANGED <<checked_nodes, cn_calls>>
    /\ UNCHANGED <<a_vars, c_vars, e_vars, d_vars, graph_vars, x_vars, descr_vars, q_vars>>

NextCn == CnSkipChecked \/ CnFound \/ CnRecurse \/ CnReturnNone

\* the interpreter runs the call to its end: a step that can be taken is taken
SpecCn == InitCn /\ [][NextCn]_vars /\ WF_vars(NextCn)

-----------------------------------------------------------------------------
(* Ontology Disambiguator: the two tie-breaks.  A candidate record is       *)
(* [qnode, name, args]; its definition text is carried along unread and is  *)
(* left out.                                                                *)

QDict(r) == [k |-> "dict", v |-> r]

\* get_string_bigrams: {string[x : x + 2] for x in range(len(string) - 1)}
get_string_bigrams(string) ==
    {SubSeq(string, x, x + 1) : x \in 1..(Len(string) - 1)}

\* list(qnames_to_dicts.keys()): the names, each at its first occurrence
RECURSIVE FirstOccurrences(_)
FirstOccurrences(names) ==
    IF names = <<>> THEN <<>>
    ELSE LET init == SubSeq(names, 1, Len(names) - 1)
             last == names[Len(names)]
         IN  IF last \in Range(init) THEN FirstOccurrences(init)
             ELSE Append(FirstOccurrences(init), last)

\* qnames_to_dicts.get(qname): the last record carrying the name
qnames_to_dicts(dicts, qname) ==
    dicts[Max({i \in 1..Len(dicts) : dicts[i].name = qname})]

\* the Dice coefficient overlap * 2.0 / (len(A) + len(B)) as a fraction
Dice(A, B) == [num |-> 2 * Cardinality(A \cap B),
               den |-> Cardinality(A) + Cardinality(B)]
\* x > y for fractions of positive denominator
Greater(x, y) == x.num * y.den > y.num * x.den

\* lines 278-283: the loop over the names from position i on, best being
\* [qname, score] so far; the division by an empty pair of bigram sets raises
RECURSIVE BestName(_, _, _, _)
BestName(pb_string_bigrams, qnode_names, i, best) ==
    IF i > Len(qnode_names) THEN Str(best.qname)
    ELSE LET qname == qnode_names[i]
             dice_coefficient == Dice(pb_string_bigrams, get_string_bigrams(qname))
         IN  IF dice_coefficient.den = 0 THEN Raise("ZeroDivisionError")
             ELSE IF Greater(dice_coefficient, best.score)
             THEN BestName(pb_string_bigrams, qnode_names, i + 1,
                           [qname |-> qname, score |-> dice_coefficient])
             ELSE BestName(pb_string_bigrams, qnode_names, i + 1, best)

get_best_qnode_by_string_similarity(label, dicts) ==
    IF dicts = <<>> THEN Raise("IndexError")
    ELSE
    LET qnode_names == FirstOccurrences([i \in 1..Len(dicts) |-> dicts[i].name])
        pb_string == rsplit_head(label)
        best_qname == BestName(get_string_bigrams(pb_string), qnode_names, 1,
                               [qname |-> qnode_names[1],
                                score |-> [num |-> 0, den |-> 1]])
    IN  IF best_qname.k = "raise" THEN best_qname
        ELSE QDict(qnames_to_dicts(dicts, best_qname.v))

\* ids_to_qdicts.get(qnode): the last record carrying the id
ids_to_qdicts(dicts, qnode) ==
    dicts[Max({i \in 1..Len(dicts) : dicts[i].qnode = qnode})]

IdsOf(dicts) == {dicts[i].qnode : i \in 1..Len(dicts)}

\* list(qnode_ids): the ids in the order the set happens to enumerate them
ListOfSet(ids, order) == SelectSeq(order, LAMBDA q : q \in ids)

\* lines 319-325: the parents, inside the candidate set, of every qnode of
\* the list, duplicates kept
keep_list(dicts, og_table, qnode_list) ==
    Flatten([i \in 1..Len(qnode_list) |->
               SelectSeq(og_table[qnode_list[i]],
                         LAMBDA qparent : qparent \in IdsOf(dicts))])

\* how deep the recursion of narrow_down_qnode may go before the interpreter
\* gives up: deeper than any walk up an acyclic hierarchy of the candidates
NarrowLimit(dicts) == Len(dicts) + 1

\* line 321 compares the candidate's name with pb, the label as it was
\* handed over (sense number included)
RECURSIVE narrow_down_qnode(_, _, _, _, _)
narrow_down_qnode(label, dicts, og_table, qnode_list, depth) ==
    IF depth > NarrowLimit(dicts) THEN Raise("RecursionError")
    ELSE
    LET hits == {i \in 1..Len(qnode_list) :
                    ids_to_qdicts(dicts, qnode_list[i]).name = label}
        keep == keep_list(dicts, og_table, qnode_list)
    IN  IF hits # {} THEN Str(qnode_list[Min(hits)])
        ELSE IF keep = <<>> THEN None
        ELSE IF Len(keep) = 1 THEN Str(keep[1])
        ELSE narrow_down_qnode(label, dicts, og_table, keep, depth + 1)

get_most_general_qnode(label, dicts, og_table, order) ==
    LET most_general_node ==
            narrow_down_qnode(label, dicts, og_table,
                              ListOfSet(IdsOf(dicts), order), 1)
    IN  IF most_general_node.k = "str"
        THEN QDict(ids_to_qdicts(dicts, most_general_node.v))
        ELSE most_general_node

-----------------------------------------------------------------------------
(* SpecSim: one call of get_best_qnode_by_string_similarity *)

MaxNameLen == 3
MaxCands == 3

Alphabet == {"a", "b"}
Names == UNION {[1..n -> Alphabet] : n \in 1..MaxNameLen}
Sense01 == <<"-", "0", "1">>
QIds == <<"Q1", "Q2", "Q3", "Q4", "Q5">>

\* the candidate lists: the i-th record has the i-th id
CandidateLists(names, lo, hi) ==
    UNION {{[i \in 1..n |-> [qnode |-> QIds[i], name |-> f[i], args |-> <<>>]] :
              f \in [1..n -> names]} : n \in lo..hi}

InitSim ==
    /\ pb \in {stem \o Sense01 : stem \in Names}
    /\ qnode_dicts \in CandidateLists(Names, 1, MaxCands)
    /\ best_qnode = Pending
    /\ original_master_table = Idle /\ qnode_order = Idle
    /\ most_general_qnode = Idle
    /\ GraphIdle /\ XIdle /\ DescrIdle /\ CnIdle /\ DisIdle
    /\ AlignIdle /\ CallsIdle /\ ExtIdle

BestByStringSimilarity ==
    /\ best_qnode = Pending
    /\ best_qnode' = get_best_qnode_by_string_similarity(pb, qnode_dicts)
    /\ UNCHANGED <<a_vars, c_vars, e_vars, d_vars, graph_vars, x_vars, descr_vars, cn_vars, pb, qnode_dicts,
                   original_master_table, qnode_order, most_general_qnode>>

NextSim == BestByStringSimilarity

SpecSim == InitSim /\ [][NextSim]_vars

-----------------------------------------------------------------------------
(* SpecNarrow: one call of get_most_general_qnode *)

MaxParents == 2
NumNarrowCands == 3

S_treat == <<"t", "r", "e", "a", "t">>
S_cure == <<"c", "u", "r", "e">>
NarrowNames == {S_treat, S_cure, L_treat_03}
NarrowIds == {QIds[i] : i \in 1..NumNarrowCands}
\* a parent is another candidate, the candidate itself, or a qnode ("Q0")
\* outside the candidate set
ParentLists ==
    {ps \in SeqsUpTo(NarrowIds \cup {"Q0"}, MaxParents) :
        \A i, j \in 1..Len(ps) : i # j => ps[i] # ps[j]}
EnumerationOrders(S) ==
    {f \in [1..Cardinality(S) -> S] : \A i, j \in DOMAIN f : i # j => f[i] # f[j]}

InitNarrow ==
    /\ pb = L_treat_03
    /\ qnode_dicts \in CandidateLists(NarrowNames, NumNarrowCands, NumNarrowCands)
    /\ original_master_table \in [NarrowIds -> ParentLists]
    /\ qnode_order \in EnumerationOrders(NarrowIds)
    /\ most_general_qnode = Pending
    /\ best_qnode = Idle
    /\ GraphIdle /\ XIdle /\ DescrIdle /\ CnIdle /\ DisIdle
    /\ AlignIdle /\ CallsIdle /\ ExtIdle

MostGeneral ==
    /\ most_general_qnode = Pending
    /\ most_general_qnode' =
          get_most_general_qnode(pb, qnode_dicts, original_master_table,
                                 qnode_order)
    /\ UNCHANGED <<a_vars, c_vars, e_vars, d_vars, graph_vars, x_vars, descr_vars, cn_vars, pb, qnode_dicts,
                   original_master_table, qnode_order, best_qnode>>

NextNarrow == MostGeneral

SpecNarrow == InitNarrow /\ [][NextNarrow]_vars

-----------------------------------------------------------------------------
(* Ontology Disambiguator: disambiguate_with_amr.  A derived table is the   *)
(* content of its JSON file, a function from labels to candidate lists.     *)

\* re.match(r"[a-z-]+-[0-9]{2}", label): a prefix of the label matches
FRAME_LABEL_PATTERN(label) ==
    \E i \in 1..(Len(label) - 3) :
        /\ \A j \in 1..i : label[j] \in Lower \cup {"-"}
        /\ label[i + 1] = "-"
        /\ label[i + 2] \in Digit
        /\ label[i + 3] \in Digit

\* pb_mapping.get(label), the empty list where Python has None
TableGet(pb_mapping, label) ==
    IF label \in DOMAIN pb_mapping THEN pb_mapping[label] ELSE <<>>

EmptyDict == [k |-> "dict", v |-> <<>>]
\* appended_qnode_data = {"pb": label} updated with a candidate record
Appended(label, r) ==
    QDict([pb |-> label, qnode |-> r.qnode, name |-> r.name, args |-> r.args])
Pair(best, from_root) == [k |-> "pair", best |-> best, from_root |-> from_root]

RECURSIVE OverlayFrom(_, _, _, _)
OverlayFrom(i, pb_label_list, pb_mapping, root_label) ==
    IF i > Len(pb_label_list) THEN Pair(EmptyDict, FALSE)
    ELSE
    LET label == pb_label_list[i]
        is_root == label = root_label
        dicts == TableGet(pb_mapping, label)
    IN  IF dicts = <<>>
        THEN OverlayFrom(i + 1, pb_label_list, pb_mapping, root_label)
        ELSE IF Len(dicts) = 1 THEN Pair(Appended(label, dicts[1]), is_root)
        ELSE LET best == get_best_qnode_by_string_similarity(label, dicts)
             IN  IF best.k = "raise" THEN best
                 ELSE Pair(Appended(label, best.v), is_root)

\* get_overlay_result with is_root lost: the result never counts as the
\* root's
get_overlay_result_never_root(pb_label_list, pb_mapping, root_label) ==
    LET r == OverlayFrom(1, pb_label_list, pb_mapping, root_label)
    IN  IF r.k = "raise" THEN r ELSE Pair(r.best, FALSE)

get_overlay_result(pb_label_list, pb_mapping, root_label) ==
    OverlayFrom(1, pb_label_list, pb_mapping, root_label)

RECURSIVE MasterFrom(_, _, _, _, _, _)
MasterFrom(i, pb_label_list, pb_mapping, og_table, order, root_label) ==
    IF i > Len(pb_label_list) THEN Pair(EmptyDict, FALSE)
    ELSE
    LET label == pb_label_list[i]
        is_root == label = root_label
        dicts == TableGet(pb_mapping, label)
    IN  IF dicts = <<>>
        THEN MasterFrom(i + 1, pb_label_list, pb_mapping, og_table, order,
                        root_label)
        ELSE IF Len(dicts) = 1 THEN Pair(Appended(label, dicts[1]), is_root)
        ELSE
        LET qnode_with_best_name == get_best_qnode_by_string_similarity(label, dicts)
            most_general == get_most_general_qnode(label, dicts, og_table, order)
        IN  IF qnode_with_best_name.k = "raise" THEN qnode_with_best_name
            ELSE IF most_general.k = "raise" THEN most_general
            ELSE IF most_general.k = "dict"
            THEN Pair(Appended(label, most_general.v), is_root)
            ELSE Pair(Appended(label, qnode_with_best_name.v), is_root)

\* get_master_result with is_root lost
get_master_result_never_root(pb_label_list, pb_mapping, og_table, order, root_label) ==
    LET r == MasterFrom(1, pb_label_list, pb_mapping, og_table, order, root_label)
    IN  IF r.k = "raise" THEN r ELSE Pair(r.best, FALSE)

get_master_result(pb_label_list, pb_mapping, og_table, order, root_label) ==
    MasterFrom(1, pb_label_list, pb_mapping, og_table, order, root_label)

\* best_qnode.get(key): None for a key the dict does not have
DictGet(dict, key) ==
    IF dict = EmptyDict THEN None
    ELSE CASE key = "name" -> Str(dict.v.name)
           [] key = "pb" -> Str(dict.v.pb)
           [] key = "qnode" -> Str(dict.v.qnode)

\* lines 188-196.  The candidate records of the tables modelled here declare
\* no argument roles, so lines 183-186 are not entered and wd stays empty.
ClaimSemantics(best_qnode_data) ==
    [k |-> "ClaimSemantics",
     event |-> [text |-> DictGet(best_qnode_data, "name"),
                from_query |-> DictGet(best_qnode_data, "pb"),
                qnode_id |-> DictGet(best_qnode_data, "qnode")],
     args |-> <<>>]

\* the node labels with the frame-pattern filter left out
pb_label_list_unfiltered(g) == g.nodes

\* amr_sentence.get_ordered_node_labels(), filtered by the frame pattern
pb_label_list(g) == SelectSeq(g.nodes, FRAME_LABEL_PATTERN)

\* disambiguate_with_amr in which a master pass that was run always decides
disambiguate_master_decides(g, master, overlay, og_table, order) ==
    LET pbl == SelectSeq(g.nodes, FRAME_LABEL_PATTERN)
    IN  IF pbl = <<>> THEN None
        ELSE
        LET root_label == pbl[1]
            ov == OverlayFrom(1, pbl, overlay, root_label)
        IN  IF ov.k = "raise" THEN ov
            ELSE IF ov.best # EmptyDict /\ ov.from_root
            THEN ClaimSemantics(ov.best)
            ELSE
            LET ms == MasterFrom(1, pbl, master, og_table, order, root_label)
            IN  IF ms.k = "raise" THEN ms ELSE ClaimSemantics(ms.best)

\* lines 153-197, the tables having been loaded
disambiguate_with_amr(g, master, overlay, og_table, order) ==
    LET pbl == pb_label_list(g)
    IN  IF pbl = <<>> THEN None
        ELSE
        LET root_label == pbl[1]
            ov == get_overlay_result(pbl, overlay, root_label)
        IN  IF ov.k = "raise" THEN ov
            ELSE IF ov.best # EmptyDict /\ ov.from_root
            THEN ClaimSemantics(ov.best)
            ELSE
            LET ms == get_master_result(pbl, master, og_table, order, root_label)
            IN  IF ms.k = "raise" THEN ms
                ELSE IF ms.from_root \/ ov.best = EmptyDict
                THEN ClaimSemantics(ms.best)
                ELSE ClaimSemantics(ov.best)

-----------------------------------------------------------------------------
(* SpecDisamb: one call of disambiguate_with_amr *)

MaxDisNodes == 2

S_treatment == <<"t", "r", "e", "a", "t", "m", "e", "n", "t">>
DisLabels == {L_treat_03, L_cure_01, L_thing}
DisGraphs ==
    {[nodes |-> ls, edges |-> <<>>, root |-> 1, tokens |-> <<>>] :
        ls \in UNION {[1..n -> DisLabels] : n \in 1..MaxDisNodes}}

Entry(q, n) == [qnode |-> q, name |-> n, args |-> <<>>]
M1 == Entry("Q1", S_treat)
M2 == Entry("Q2", S_cure)
M3 == Entry("Q3", S_treatment)
O1 == Entry("Q4", S_treatment)
O2 == Entry("Q5", S_cure)
MasterIds == {"Q1", "Q2", "Q3"}

\* the sublists of list, order kept
SubLists(list) ==
    {SelectSeq(list, LAMBDA e : e \in S) : S \in SUBSET Range(list)}

\* a table has a key only for a label with records
Table(treat, cure) ==
    [l \in (IF treat = <<>> THEN {} ELSE {L_treat_03})
           \cup (IF cure = <<>> THEN {} ELSE {L_cure_01}) |->
        IF l = L_treat_03 THEN treat ELSE cure]

MasterTables ==
    {Table(t, c) : t \in SubLists(<<M1, M2, M3>>),
                   c \in {<<>>, <<M1>>, <<M2>>, <<M3>>}}
OverlayTables ==
    {Table(t, c) : t \in {<<>>, <<O1>>, <<O1, O2>>}, c \in {<<>>, <<O2>>}}
\* every master qnode has at most one parent, another master qnode
DisParents ==
    {f \in [MasterIds -> {<<>>} \cup {<<q>> : q \in MasterIds}] :
        \A q \in MasterIds : f[q] # <<q>>}

InitDisamb ==
    /\ amr \in DisGraphs
    /\ alignments = <<>>
    /\ pbs_to_qnodes_master \in MasterTables
    /\ pbs_to_qnodes_overlay \in OverlayTables
    /\ original_master_table \in DisParents
    /\ qnode_order \in {<<"Q1", "Q2", "Q3">>, <<"Q3", "Q2", "Q1">>}
    /\ master_table_exists \in BOOLEAN
    /\ overlay_table_exists \in BOOLEAN
    /\ claim_semantics = Pending
    /\ pb = Idle /\ qnode_dicts = Idle /\ best_qnode = Idle
    /\ most_general_qnode = Idle
    /\ XIdle /\ DescrIdle /\ CnIdle /\ AlignIdle /\ CallsIdle /\ ExtIdle

\* lines 135-145 create a derived table file that is missing (its content is
\* what the load of lines 148-151 then reads); lines 153-197 follow
Disambiguate ==
    /\ claim_semantics = Pending
    /\ master_table_exists' = TRUE
    /\ overlay_table_exists' = TRUE
    /\ claim_semantics' =
          disambiguate_with_amr(amr, pbs_to_qnodes_master, pbs_to_qnodes_overlay,
                                original_master_table, qnode_order)
    /\ UNCHANGED <<graph_vars, x_vars, descr_vars, cn_vars, q_vars, a_vars,
                   c_vars, e_vars, pbs_to_qnodes_master, pbs_to_qnodes_overlay>>

NextDisamb == Disambiguate

SpecDisamb == InitDisamb /\ [][NextDisamb]_vars

-----------------------------------------------------------------------------
(* The derived table files.  qe_master.json is a list of records            *)
(* [id, name, pb], xpo_dwd_overlay_v2.json a list of event records          *)
(* [wd_node, name, ldc_types], ldc_types being the list of the pb_rolesets  *)
(* lists.  The records modelled here declare no roles and no arguments, so  *)
(* every summary has empty args.                                            *)

\* str.replace(old, new) for one-character strings
Replace(str, old, new) ==
    [i \in 1..Len(str) |-> IF str[i] = old THEN new ELSE str[i]]

\* name.split("_Q")[0]
SplitQ(name) ==
    LET hits == {i \in 1..(Len(name) - 1) : name[i] = "_" /\ name[i + 1] = "Q"}
    IN  IF hits = {} THEN name ELSE SubSeq(name, 1, Min(hits) - 1)

\* a defaultdict(list) filled by appending the pairs <<key, value>> in order
AppendAll(pairs) ==
    [key \in {pairs[i][1] : i \in 1..Len(pairs)} |->
        LET mine == SelectSeq(pairs, LAMBDA kv : kv[1] = key)
        IN  [i \in 1..Len(mine) |-> mine[i][2]]]

generate_master_dict(qnode_mapping) ==
    AppendAll([i \in 1..Len(qnode_mapping) |->
                 <<Replace(qnode_mapping[i].pb, ".", "-"),
                   Entry(qnode_mapping[i].id, SplitQ(qnode_mapping[i].name))>>])

generate_overlay_dict(events) ==
    AppendAll(Flatten([i \in 1..Len(events) |->
        LET data == events[i]
            pb_items == Flatten(data.ldc_types)
        IN  [j \in 1..Len(pb_items) |->
               <<Replace(Replace(pb_items[j], ".", "-"), "_", "-"),
                 Entry(data.wd_node, data.name)>>]]))

\* "if not <table path>.exists()" with the test left out
must_generate_always(exists) == TRUE
\* lines 137 and 141: a derived table is generated when its file is missing
must_generate(exists) == ~exists

-----------------------------------------------------------------------------
(* SpecCalls: a sequence of calls of disambiguate_with_amr in one process.  *)
(* pbs_to_qnodes_master and pbs_to_qnodes_overlay are the contents of the   *)
(* derived files, None while a file is missing.                             *)

MaxCalls == 2

QeMaster ==
    <<[id |-> "Q1", name |-> S_treat \o <<"_", "Q", "1">>,
       pb |-> <<"t", "r", "e", "a", "t", ".", "0", "3">>],
      [id |-> "Q2", name |-> S_cure \o <<"_", "Q", "2">>,
       pb |-> <<"c", "u", "r", "e", ".", "0", "1">>],
      [id |-> "Q3", name |-> S_treatment \o <<"_", "Q", "3">>,
       pb |-> <<"t", "r", "e", "a", "t", ".", "0", "3">>]>>
XpoOverlay ==
    <<[wd_node |-> "Q4", name |-> S_treatment,
       ldc_types |-> <<<<<<"t", "r", "e", "a", "t", ".", "0", "3">>>>>>],
      [wd_node |-> "Q5", name |-> S_cure,
       ldc_types |-> <<<<<<"c", "u", "r", "e", ".", "0", "1">>>>,
                       <<<<"t", "r", "e", "a", "t", "_", "0", "3">>>>>>]>>

\* a derived file found on disk is one generated earlier, or an older one
ExistingMasters == {generate_master_dict(QeMaster), Table(<<M1, M2>>, <<>>)}
ExistingOverlays == {generate_overlay_dict(XpoOverlay), Table(<<>>, <<O2>>)}

InitCalls ==
    /\ amr = Idle /\ alignments = Idle
    /\ master_table_exists \in BOOLEAN
    /\ overlay_table_exists \in BOOLEAN
    /\ pbs_to_qnodes_master \in
          (IF master_table_exists THEN ExistingMasters ELSE {None})
    /\ pbs_to_qnodes_overlay \in
          (IF overlay_table_exists THEN ExistingOverlays ELSE {None})
    /\ original_master_table \in DisParents
    /\ qnode_order = <<"Q1", "Q2", "Q3">>
    /\ claim_semantics = Pending
    /\ master_generated = 0 /\ overlay_generated = 0 /\ calls_made = 0
    /\ pb = Idle /\ qnode_dicts = Idle /\ best_qnode = Idle
    /\ most_general_qnode = Idle
    /\ XIdle /\ DescrIdle /\ CnIdle /\ AlignIdle /\ ExtIdle

\* lines 135-197: generate the missing table files, load both, disambiguate
Call ==
    /\ calls_made < MaxCalls
    /\ calls_made' = calls_made + 1
    /\ \E g \in DisGraphs :
          LET gen_master == must_generate(master_table_exists)
              gen_overlay == must_generate(overlay_table_exists)
              master == IF gen_master THEN generate_master_dict(QeMaster)
                        ELSE pbs_to_qnodes_master
              overlay == IF gen_overlay THEN generate_overlay_dict(XpoOverlay)
                         ELSE pbs_to_qnodes_overlay
          IN  /\ amr' = g
              /\ alignments' = <<>>
              /\ master_table_exists' = TRUE
              /\ overlay_table_exists' = TRUE
              /\ pbs_to_qnodes_master' = master
              /\ pbs_to_qnodes_overlay' = overlay
              /\ master_generated' =
                    master_generated + (IF gen_master THEN 1 ELSE 0)
              /\ overlay_generated' =
                    overlay_generated + (IF gen_overlay THEN 1 ELSE 0)
              /\ claim_semantics' =
                    disambiguate_with_amr(g, master, overlay,
                                          original_master_table, qnode_order)
    /\ UNCHANGED <<x_vars, descr_vars, cn_vars, q_vars, a_vars, e_vars>>

NextCalls == Call

SpecCalls == InitCalls /\ [][NextCalls]_vars

-----------------------------------------------------------------------------
(* SpecWorkers: several workers run disambiguate_with_amr at the same time, *)
(* each on its own claim; they share the derived table files and nothing    *)
(* else.  json.dump writes a table in chunks, one per key of the table; the *)
(* chunks of a file that are on disk are master_written / overlay_written,  *)
(* and the last chunk reaches the disk when the with block closes the file. *)
(* A worker's frame is [pc, pos, amr, master, overlay, claim_semantics].    *)

NumWorkers == 2
Workers == 1..NumWorkers

\* the chunks of a table file
Chunks(table) == 1..Cardinality(DOMAIN table)

\* json.load of a table file of which the chunks written are on disk
json_load(table, written) ==
    IF written = Chunks(table) THEN QDict(table)
    ELSE Raise("JSONDecodeError")

WorkerGraphs ==
    {g \in DisGraphs : g.nodes \in {<<L_treat_03>>, <<L_thing, L_cure_01>>}}

Frame(g) ==
    [pc |-> "master_exists", pos |-> 0, amr |-> g, master |-> Pending,
     overlay |-> Pending, claim_semantics |-> Pending]

InitWorkers ==
    /\ amr = Idle /\ alignments = Idle
    /\ master_table_exists \in BOOLEAN
    /\ overlay_table_exists \in BOOLEAN
    /\ ~(master_table_exists /\ overlay_table_exists)
    /\ pbs_to_qnodes_master =
          (IF master_table_exists THEN generate_master_dict(QeMaster) ELSE None)
    /\ pbs_to_qnodes_overlay =
          (IF overlay_table_exists THEN generate_overlay_dict(XpoOverlay)
           ELSE None)
    /\ master_written =
          (IF master_table_exists THEN Chunks(pbs_to_qnodes_master) ELSE {})
    /\ overlay_written =
          (IF overlay_table_exists THEN Chunks(pbs_to_qnodes_overlay) ELSE {})
    /\ workers \in [Workers -> {Frame(g) : g \in WorkerGraphs}]
    /\ original_master_table = [q \in MasterIds |-> <<>>]
    /\ qnode_order = <<"Q1", "Q2", "Q3">>
    /\ claim_semantics = Idle
    /\ pb = Idle /\ qnode_dicts = Idle /\ best_qnode = Idle
    /\ most_general_qnode = Idle
    /\ XIdle /\ DescrIdle /\ CnIdle /\ AlignIdle /\ CallsIdle
    /\ ArgsIdle /\ SpeechIdle /\ OffsetsIdle

Goto(w, label) == workers' = [workers EXCEPT ![w].pc = label]

WorkerFrame ==
    <<o_vars, s_vars, k_vars, graph_vars, x_vars, descr_vars, cn_vars, q_vars, a_vars, c_vars,
      claim_semantics>>
MasterFile == <<pbs_to_qnodes_master, master_table_exists, master_written>>
OverlayFile == <<pbs_to_qnodes_overlay, overlay_table_exists, overlay_written>>

\* line 137
MasterExists(w) ==
    /\ workers[w].pc = "master_exists"
    /\ Goto(w, IF must_generate(master_table_exists) THEN "master_open"
               ELSE "overlay_exists")
    /\ UNCHANGED <<WorkerFrame, MasterFile, OverlayFile>>

\* line 379: open(pb_master, "w+") creates the file or empties it
MasterOpen(w) ==
    /\ workers[w].pc = "master_open"
    /\ master_table_exists' = TRUE
    /\ pbs_to_qnodes_master' = generate_master_dict(QeMaster)
    /\ master_written' = {}
    /\ workers' = [workers EXCEPT ![w].pc = "master_dump", ![w].pos = 1]
    /\ UNCHANGED <<WorkerFrame, OverlayFile>>

\* line 380: json.dump, up to the end of the with block
MasterDump(w) ==
    /\ workers[w].pc = "master_dump"
    /\ master_written' = master_written \cup {workers[w].pos}
    /\ workers' =
          [workers EXCEPT
             ![w].pc = IF workers[w].pos = Max(Chunks(pbs_to_qnodes_master))
                       THEN "overlay_exists" ELSE "master_dump",
             ![w].pos = workers[w].pos + 1]
    /\ UNCHANGED <<WorkerFrame, pbs_to_qnodes_master, master_table_exists,
                   OverlayFile>>

\* line 141
OverlayExists(w) ==
    /\ workers[w].pc = "overlay_exists"
    /\ Goto(w, IF must_generate(overlay_table_exists) THEN "overlay_open"
               ELSE "master_load")
    /\ UNCHANGED <<WorkerFrame, MasterFile, OverlayFile>>

\* line 420
OverlayOpen(w) ==
    /\ workers[w].pc = "overlay_open"
    /\ overlay_table_exists' = TRUE
    /\ pbs_to_qnodes_overlay' = generate_overlay_dict(XpoOverlay)
    /\ overlay_written' = {}
    /\ workers' = [workers EXCEPT ![w].pc = "overlay_dump", ![w].pos = 1]
    /\ UNCHANGED <<WorkerFrame, MasterFile>>

\* line 421
OverlayDump(w) ==
    /\ workers[w].pc = "overlay_dump"
    /\ overlay_written' = overlay_written \cup {workers[w].pos}
    /\ workers' =
          [workers EXCEPT
             ![w].pc = IF workers[w].pos = Max(Chunks(pbs_to_qnodes_overlay))
                       THEN "master_load" ELSE "overlay_dump",
             ![w].pos = workers[w].pos + 1]
    /\ UNCHANGED <<WorkerFrame, pbs_to_qnodes_overlay, overlay_table_exists,
                   MasterFile>>

\* lines 148-149; an exception ends the call
MasterLoad(w) ==
    /\ workers[w].pc = "master_load"
    /\ LET loaded == json_load(pbs_to_qnodes_master, master_written)
       IN  workers' =
             [workers EXCEPT
                ![w].master = loaded,
                ![w].pc = IF loaded.k = "raise" THEN "done" ELSE "overlay_load",
                ![w].claim_semantics =
                    IF loaded.k = "raise" THEN loaded ELSE Pending]
    /\ UNCHANGED <<WorkerFrame, MasterFile, OverlayFile>>

\* lines 150-151
OverlayLoad(w) ==
    /\ workers[w].pc = "overlay_load"
    /\ LET loaded == json_load(pbs_to_qnodes_overlay, overlay_written)
       IN  workers' =
             [workers EXCEPT
                ![w].overlay = loaded,
                ![w].pc = IF loaded.k = "raise" THEN "done" ELSE "labels",
                ![w].claim_semantics =
                    IF loaded.k = "raise" THEN loaded ELSE Pending]
    /\ UNCHANGED <<WorkerFrame, MasterFile, OverlayFile>>

\* lines 153-197, on the tables this worker loaded
WorkerDisambiguate(w) ==
    /\ workers[w].pc = "labels"
    /\ workers' =
          [workers EXCEPT
             ![w].pc = "done",
             ![w].claim_semantics =
                 disambiguate_with_amr(workers[w].amr, workers[w].master.v,
                                       workers[w].overlay.v,
                                       original_master_table, qnode_order)]
    /\ UNCHANGED <<WorkerFrame, MasterFile, OverlayFile>>

NextWorkers ==
    \E w \in Workers :
        \/ MasterExists(w) \/ MasterOpen(w) \/ MasterDump(w)
        \/ OverlayExists(w) \/ OverlayOpen(w) \/ OverlayDump(w)
        \/ MasterLoad(w) \/ OverlayLoad(w) \/ WorkerDisambiguate(w)

SpecWorkers == InitWorkers /\ [][NextWorkers]_vars

-----------------------------------------------------------------------------
(* get_wikidata_for_labeled_args.  args is a dict, here the list of its     *)
(* (role, text) items in insertion order; disambiguate_kgtk is the entity   *)
(* search, answers[text] being its [options, all_options] for that text.    *)
(* The operator gives [calls, ret]: the texts searched, in order, and what  *)
(* the function returned or raised.                                         *)

\* line 106 with the test left out
searchable_always(arg) == TRUE
\* line 106: if "-" not in arg
searchable(arg) == "-" \notin Range(arg)

DictSet(dict, key, value) ==
    [x \in DOMAIN dict \cup {key} |-> IF x = key THEN value ELSE dict[x]]

\* lines 116-123; the span is a lookup in the claim's offset table that
\* does not change which roles are searched or kept, and is left out
ClaimArg(qnode_selection, arg) ==
    [k |-> "ClaimArg", text |-> qnode_selection.rawName,
     qnode_id |-> qnode_selection.qnode, from_query |-> arg]

RECURSIVE WikidataFrom(_, _, _, _, _)
WikidataFrom(i, args, answers, calls, found) ==
    IF i > Len(args) THEN [calls |-> calls, ret |-> QDict(found)]
    ELSE
      LET role == args[i][1]
          arg == args[i][2]
      IN  IF ~searchable(arg)
          THEN WikidataFrom(i + 1, args, answers, calls, found)
          ELSE
            LET qnode_info == answers[arg]
                qnode_selection ==
                    IF qnode_info.options # <<>> THEN <<qnode_info.options[1]>>
                    ELSE IF qnode_info.all_options # <<>>
                         THEN <<qnode_info.all_options[1]>>
                         ELSE <<>>
                claim_arg ==
                    IF qnode_selection = <<>> THEN None
                    ELSE ClaimArg(qnode_selection[1], arg)
            IN  WikidataFrom(i + 1, args, answers, Append(calls, arg),
                             DictSet(found, role, claim_arg))

get_wikidata_for_labeled_args(args, answers) ==
    WikidataFrom(1, args, answers, <<>>, <<>>)

-----------------------------------------------------------------------------
(* SpecArgs: one call of get_wikidata_for_labeled_args *)

MaxArgs == 2

ArgRoles == {"agent", "theme", "place"}
S_flu == <<"f", "l", "u">>
S_bat == <<"b", "a", "t">>
S_sars_2 == <<"s", "a", "r", "s", "-", "2">>
ArgTexts == {S_flu, S_bat, S_sars_2}
Candidate(q, n) == [qnode |-> q, rawName |-> n]
\* no candidate, a candidate among the options, one among all_options only
KgtkAnswers ==
    {[options |-> <<>>, all_options |-> <<>>],
     [options |-> <<Candidate("Q6", S_flu)>>,
      all_options |-> <<Candidate("Q6", S_flu)>>],
     [options |-> <<>>, all_options |-> <<Candidate("Q7", S_bat)>>]}

\* lists of items with distinct roles
ArgLists ==
    {l \in SeqsUpTo(ArgRoles \X ArgTexts, MaxArgs) :
        \A i, j \in 1..Len(l) : l[i][1] = l[j][1] => i = j}

InitArgs ==
    /\ labeled_args \in ArgLists
    /\ kgtk \in [ArgTexts -> KgtkAnswers]
    /\ kgtk_calls = <<>>
    /\ args_to_qnodes = Pending
    /\ GraphIdle /\ XIdle /\ DescrIdle /\ CnIdle /\ QIdle /\ DisIdle
    /\ AlignIdle /\ CallsIdle /\ WorkersIdle /\ SpeechIdle /\ OffsetsIdle

GetWikidata ==
    /\ args_to_qnodes = Pending
    /\ LET out == get_wikidata_for_labeled_args(labeled_args, kgtk)
       IN  /\ kgtk_calls' = out.calls
           /\ args_to_qnodes' = out.ret
    /\ UNCHANGED <<labeled_args, kgtk, graph_vars, x_vars, descr_vars, cn_vars,
                   q_vars, d_vars, a_vars, c_vars, w_vars, s_vars, o_vars>>

NextArgs == GetWikidata

SpecArgs == InitArgs /\ [][NextArgs]_vars

-----------------------------------------------------------------------------
(* remove_speech_tags.  The claimer phrase is the sequence of its words, so *)
(* claimer.split() is the phrase and " ".join is the phrase again.          *)

\* {token.text: token.pos_ for token in spacied_claim_sentence}: a later
\* token of the same text replaces the tag of an earlier one
parts_of_speech(sentence) ==
    [text \in {sentence[i].text : i \in 1..Len(sentence)} |->
        sentence[Max({i \in 1..Len(sentence) : sentence[i].text = text})].pos_]

\* line 134 for phrases of every length
long_enough_always(tokenized_claimer) == TRUE
\* line 134: len(tokenized_claimer) >= 2
long_enough(tokenized_claimer) == Len(tokenized_claimer) >= 2

remove_speech_tags(claimer, sentence) ==
    IF claimer = None \/ claimer = Str(<<>>) THEN None
    ELSE
      LET tokenized_claimer == claimer.v
          last_claim_token == tokenized_claimer[Len(tokenized_claimer)]
      IN  IF long_enough(tokenized_claimer) /\ sentence # <<>>
          THEN IF /\ last_claim_token \in DOMAIN parts_of_speech(sentence)
                  /\ parts_of_speech(sentence)[last_claim_token] \in {"VERB", "AUX"}
               THEN Str(SubSeq(tokenized_claimer, 1, Len(tokenized_claimer) - 1))
               ELSE Str(tokenized_claimer)
          ELSE claimer

-----------------------------------------------------------------------------
(* SpecSpeech: one call of remove_speech_tags, as get_argument_node makes it *)

MaxPhraseLen == 2
MaxSentenceLen == 2

SpeechWords == {"he", "wrote", "record"}
SpeechTags == {"PRON", "VERB", "AUX", "NOUN"}
Phrases == {None} \cup {Str(ws) : ws \in SeqsUpTo(SpeechWords, MaxPhraseLen)}
SpeechSentences ==
    SeqsUpTo([text : SpeechWords, pos_ : SpeechTags], MaxSentenceLen)

InitSpeech ==
    /\ full_claimer \in Phrases
    /\ spacied_claim_sentence \in SpeechSentences
    /\ arg_node = Pending
    /\ GraphIdle /\ XIdle /\ DescrIdle /\ CnIdle /\ QIdle /\ DisIdle
    /\ AlignIdle /\ CallsIdle /\ WorkersIdle /\ ArgsIdle /\ OffsetsIdle

RemoveSpeechTags ==
    /\ arg_node = Pending
    /\ arg_node' = remove_speech_tags(full_claimer, spacied_claim_sentence)
    /\ UNCHANGED <<full_claimer, spacied_claim_sentence, graph_vars, x_vars,
                   descr_vars, cn_vars, q_vars, d_vars, a_vars, c_vars, w_vars,
                   k_vars, o_vars>>

NextSpeech == RemoveSpeechTags

SpecSpeech == InitSpeech /\ [][NextSpeech]_vars

-----------------------------------------------------------------------------
(* Claim.get_offsets_for_text.  A text is the sequence of the tokens the    *)
(* tokenizer makes of it; a span is a pair <<start, end>>.  The operator    *)
(* gives [ret, table]: what the call returned and the table it left.        *)

Span(offsets) == [k |-> "span", v |-> offsets]

\* the first pair first_offsets, last_offsets, first_offsets taken in the
\* outer loop, with first_offsets[0] < last_offsets[1]
FirstCombination(first_offsets_list, last_offsets_list) ==
    LET pairs == Flatten([i \in 1..Len(first_offsets_list) |->
                           [j \in 1..Len(last_offsets_list) |->
                              <<first_offsets_list[i][1],
                                last_offsets_list[j][2]>>]])
        good == SelectSeq(pairs, LAMBDA pr : pr[1] < pr[2])
    IN  IF good = <<>> THEN None ELSE Span(good[1])

get_offsets_for_text(text, table) ==
    IF text = <<>> THEN [ret |-> None, table |-> table]
    ELSE IF table = None \/ DOMAIN table.v = {}
    THEN [ret |-> None, table |-> table]
    ELSE
      LET text_split == text
          offsets == table.v
      IN  IF Len(text_split) = 1
          THEN [ret |-> IF text_split[1] \in DOMAIN offsets
                           /\ offsets[text_split[1]] # <<>>
                        THEN Span(offsets[text_split[1]][1]) ELSE None,
                table |-> table]
          ELSE
            LET first_token == text_split[1]
                last_token == text_split[Len(text_split)]
            IN  IF first_token \notin DOMAIN offsets
                   \/ offsets[first_token] = <<>>
                THEN [ret |-> None, table |-> table]
                ELSE
                  \* first_offsets_list.reverse() reverses the list the
                  \* table holds
                  LET reversed ==
                          [offsets EXCEPT
                             ![first_token] = Reverse(offsets[first_token])]
                  IN  IF last_token \notin DOMAIN reversed
                         \/ reversed[last_token] = <<>>
                      THEN [ret |-> None, table |-> QDict(reversed)]
                      ELSE [ret |-> FirstCombination(reversed[first_token],
                                                    reversed[last_token]),
                            table |-> QDict(reversed)]

-----------------------------------------------------------------------------
(* SpecOffsets: a sequence of calls of get_offsets_for_text on one claim *)

MaxOffsetCalls == 3
MaxTextLen == 2
MaxOccurrences == 2

OffsetTokens == {"a", "b"}
OffsetSpans == {<<0, 1>>, <<2, 3>>, <<4, 5>>}
\* the occurrences of one token, in sentence order
OffsetLists ==
    {l \in SeqsUpTo(OffsetSpans, MaxOccurrences) :
        l # <<>> /\ \A i \in 1..(Len(l) - 1) : l[i][1] < l[i + 1][1]}
\* no two tokens of the sentence share a span
OffsetTables ==
    {None} \cup
    {QDict(t) : t \in
        {f \in UNION {[ks -> OffsetLists] : ks \in SUBSET OffsetTokens} :
            \A x, y \in DOMAIN f :
               x # y => Range(f[x]) \cap Range(f[y]) = {}}}
OffsetTexts == SeqsUpTo(OffsetTokens, MaxTextLen)

InitOffsets ==
    /\ tokens_to_offsets \in OffsetTables
    /\ offsets_text = Pending
    /\ offsets_result = Pending
    /\ first_results = [t \in OffsetTexts |-> Pending]
    /\ offsets_calls = 0
    /\ GraphIdle /\ XIdle /\ DescrIdle /\ CnIdle /\ QIdle /\ DisIdle
    /\ AlignIdle /\ CallsIdle /\ WorkersIdle /\ ArgsIdle /\ SpeechIdle

GetOffsets ==
    /\ offsets_calls < MaxOffsetCalls
    /\ offsets_calls' = offsets_calls + 1
    /\ \E text \in OffsetTexts :
          LET out == get_offsets_for_text(text, tokens_to_offsets)
          IN  /\ offsets_text' = Str(text)
              /\ offsets_result' = out.ret
              /\ tokens_to_offsets' = out.table
              /\ first_results' =
                    IF first_results[text] = Pending
                    THEN [first_results EXCEPT ![text] = out.ret]
                    ELSE first_results
    /\ UNCHANGED <<graph_vars, x_vars, descr_vars, cn_vars, q_vars, d_vars,
                   a_vars, c_vars, w_vars, k_vars, s_vars>>

NextOffsets == GetOffsets

SpecOffsets == InitOffsets /\ [][NextOffsets]_vars

-----------------------------------------------------------------------------
(* SpecAlign: one call of create_node_to_token_dict *)

MaxAlignments == 2

ASentence == <<"salt", "water", ".">>
\* an alignment covers one or both nodes and a non-empty set of tokens, the
\* token indices in increasing order
ATokenLists ==
    {SelectSeq(<<1, 2, 3>>, LAMBDA i : i \in S) : S \in (SUBSET (1..3)) \ {{}}}
AAlignments ==
    {[nodes |-> ns, tokens |-> ts] :
        ns \in {<<1>>, <<2>>, <<1, 2>>}, ts \in ATokenLists}

InitAlign ==
    /\ amr = [nodes |-> <<L_thing, L_thing>>, edges |-> <<>>, root |-> 1,
              tokens |-> ASentence]
    /\ alignments \in SeqsUpTo(AAlignments, MaxAlignments)
    /\ node_to_token_dict = Pending
    /\ XIdle /\ DescrIdle /\ CnIdle /\ QIdle /\ DisIdle /\ CallsIdle /\ ExtIdle

Resolve ==
    /\ node_to_token_dict = Pending
    /\ node_to_token_dict' = QDict(create_node_to_token_dict(amr, alignments))
    /\ UNCHANGED <<graph_vars, x_vars, descr_vars, cn_vars, q_vars, d_vars,
                   c_vars, e_vars>>

NextAlign == Resolve

SpecAlign == InitAlign /\ [][NextAlign]_vars

-----------------------------------------------------------------------------
(* Claims about the X-Variable Rule Engine (SpecX) *)

XDone == x_variable # Pending
XStrings == create_node_to_token_dict(amr, alignments)
MatchingRules == {r \in 1..NumRules : RuleTest(r, claim_template)}
XBody(r) == RuleBody(r, amr, XStrings, claim_template)
ReturningRules == {r \in MatchingRules : XBody(r) # NoReturn}

\* C1 (as stated): identify_x_variable_covid returns the result of the first
\* rule, in table order, whose template test matches; when that rule locates
\* no node the result is None and no later rule is tried.
C1_FirstMatchingRuleAnswers ==
    (XDone /\ claim_template # <<>>) =>
        IF MatchingRules = {} \/ XBody(Min(MatchingRules)) = NoReturn
        THEN x_variable = None
        ELSE x_variable = XBody(Min(MatchingRules))

\* C1 (amended): the outcome is that of the first rule, in table order, whose
\* template test matches and whose search returns; a matching rule that
\* locates no node hands over to the later rules, and None is the result
\* exactly when no matching rule locates a node.
C1_FirstReturningRuleAnswers ==
    (XDone /\ claim_template # <<>>) =>
        /\ (x_variable = None) <=> (ReturningRules = {})
        /\ x_variable # None =>
             \E r \in MatchingRules :
                /\ x_variable = XBody(r)
                /\ \A q \in MatchingRules : q < r => XBody(q) = NoReturn

\* a later rule answered after the first matching rule had located no node
C1_Witness ==
    /\ XDone /\ claim_template # <<>> /\ MatchingRules # {}
    /\ XBody(Min(MatchingRules)) = NoReturn
    /\ x_variable.k = "XVariable"

\* the scenario of C2 for agent role `role`: template "X cures COVID-19",
\* root labelled cure-01 whose first `role` child c has an aligned text, no
\* :name child and no modifier, and no edge of the root has the other role
CureScenario(role, other, c) ==
    /\ claim_template = S_X_cures_COVID_19
    /\ amr.nodes[amr.root] = L_cure_01
    /\ Children(amr, amr.root, role) # <<>>
    /\ Children(amr, amr.root, role)[1] = c
    /\ Children(amr, amr.root, other) = <<>>
    /\ c \in DOMAIN XStrings
    /\ ~PROPBANK_PATTERN(amr.nodes[c])
    /\ \A r \in {":name", ":mod", ":consist-of", ":ARG1-of", ":op1"} :
          Children(amr, c, r) = <<>>

\* C2 (as stated): for the template "X cures COVID-19" and a root cure-01
\* with an :ARG0 child aligned to text T (no :name, no modifiers) the
\* X-variable has text T.
C2_Arg0ChildIsXVariable ==
    \A c \in NodesOf(amr) :
        (XDone /\ CureScenario(":ARG0", ":ARG3", c)) =>
            x_variable = XVariable(Str(XStrings[c]))

\* C2 (amended): for that template it is the root's :ARG3 child whose text T
\* becomes the X-variable; a root with an :ARG0 child and no :ARG3 child
\* yields None.
C2_Arg3ChildIsXVariable ==
    \A c \in NodesOf(amr) :
        /\ (XDone /\ CureScenario(":ARG3", ":ARG0", c)) =>
              x_variable = XVariable(Str(XStrings[c]))
        /\ (XDone /\ CureScenario(":ARG0", ":ARG3", c)) => x_variable = None

C2_Witness ==
    \E c \in NodesOf(amr) :
        /\ XDone /\ CureScenario(":ARG3", ":ARG0", c)
        /\ x_variable.k = "XVariable"

\* C19: for every graph and alignment set, also when the root or an
\* argument node has no aligned token and so is missing from the Alignment
\* Resolver's mapping, identify_x_variable_covid and the descriptions it asks
\* for end with a mention or with None and never raise an error.
C19_NeverRaises == x_variable.k # "raise"

-----------------------------------------------------------------------------
(* Claims about the Text Reconstructor (SpecDescr) *)

\* C8: get_full_description terminates on every graph and focus node, also
\* when PropBank-labelled nodes are linked in a cycle by :ARG1 edges: the
\* recursion never runs into the interpreter's recursion limit.
C8_DescriptionTerminates == description # Raise("RecursionError")

DescrDone == description # Pending
DStrings == create_node_to_token_dict(amr, alignments)
FocusLabelIsFrame == PROPBANK_PATTERN(amr.nodes[focus_node])
FocusChildren(role) == Children(amr, focus_node, role)
ModifierRoles == {":mod", ":consist-of", ":ARG1-of", ":op1"}
\* the focus node's children under the modifier roles
ModifierChildren == UNION {Range(FocusChildren(r)) : r \in ModifierRoles}

\* C16: for a focus node without :mod, :consist-of, :ARG1-of, :op1 and :ARG1
\* edges, get_full_description with the default flag returns exactly the
\* node's aligned token text, whether its label is a PropBank frame or not.
C16_PlainNodeGivesItsText ==
    (/\ DescrDone /\ ~ignore_focus_node
     /\ focus_node \in DOMAIN DStrings
     /\ ModifierChildren = {} /\ FocusChildren(":ARG1") = <<>>) =>
        description = Str(DStrings[focus_node])

\* a frame-labelled focus node whose only edge is an :ARG0 edge
C16_Witness ==
    /\ DescrDone /\ ~ignore_focus_node /\ FocusLabelIsFrame
    /\ amr.edges = <<<<focus_node, ":ARG0", 3>>>>
    /\ description = Str(DStrings[focus_node])

\* the description of the focus node's first :ARG1 child
Arg1Description ==
    get_full_description(amr, DStrings, FocusChildren(":ARG1")[1], FALSE, 1)
\* a frame-labelled focus node with an :ARG1 child whose description is
\* non-empty and differs from the focus text
Arg1Scenario ==
    /\ DescrDone /\ FocusLabelIsFrame
    /\ focus_node \in DOMAIN DStrings
    /\ FocusChildren(":ARG1") # <<>>
    /\ Arg1Description.k = "str"
    /\ Arg1Description.v # <<>>
    /\ Arg1Description.v # DStrings[focus_node]

\* C17 as stated: for a frame-labelled focus node with text F whose :ARG1
\* child has the non-empty description D # F, the result is D prepended to
\* F, the phrase "D F".
C17_Arg1DescriptionBeforeFocus ==
    Arg1Scenario => description = Str(Arg1Description.v \o DStrings[focus_node])

\* C17 amended: in that case the result is F followed by D, the phrase
\* "F D".
C17_Arg1DescriptionAfterFocus ==
    Arg1Scenario => description = Str(DStrings[focus_node] \o Arg1Description.v)

\* the :ARG1 child is itself described by two tokens
C17_Witness ==
    /\ Arg1Scenario
    /\ Len(Arg1Description.v) = 2
    /\ description = Str(DStrings[focus_node] \o Arg1Description.v)

\* C18: for a focus node that is no frame, described with ignore_focus_node
\* set, the focus text is left out whenever some :mod, :consist-of, :ARG1-of
\* or :op1 text was collected, and is the fallback result when none was, so
\* that the result is never the empty string.
C18_IgnoredFocusFallsBack ==
    (/\ DescrDone /\ ~FocusLabelIsFrame /\ ignore_focus_node
     /\ description.k = "str") =>
        /\ ModifierChildren # {} =>
              Range(description.v) \subseteq
                  UNION {Range(DStrings[c]) : c \in ModifierChildren}
        /\ ModifierChildren = {} => description = Str(DStrings[focus_node])
        /\ description # Str(<<>>)

-----------------------------------------------------------------------------
(* Claims about the Claimer Locator's upward search (SpecCn) *)

CnDone == claim_node # Pending
Occurrences(s, x) == Cardinality({i \in 1..Len(s) : s[i] = x})

CnStart == cn_calls[1]
ParentsOf(n) == {e[1] : e \in {x \in Range(amr.edges) : x[3] = n}}
RECURSIVE CnClosure(_, _)
CnClosure(S, k) ==
    IF k = 0 THEN S
    ELSE CnClosure(S \cup UNION {ParentsOf(m) : m \in S}, k - 1)
CnAncestors == CnClosure(ParentsOf(CnStart), Len(amr.nodes))
StatementNode(n) == rsplit_head(amr.nodes[n]) \in FRAMENET_VERBS

\* a depth-first search over the parents of node, from the i-th on, in
\* parent order, each node entered once: the first statement/reasoning node
RECURSIVE DepthFirst(_, _, _)
DepthFirst(node, i, entered) ==
    LET parents == get_parents_for_node(amr, node)
    IN  IF i > Len(parents) THEN [found |-> None, entered |-> entered]
        ELSE IF parents[i] \in entered THEN DepthFirst(node, i + 1, entered)
        ELSE IF StatementNode(parents[i])
        THEN [found |-> Str(parents[i]), entered |-> entered]
        ELSE LET above == DepthFirst(parents[i], 1, entered \cup {parents[i]})
             IN  IF above.found # None THEN above
                 ELSE DepthFirst(node, i + 1, above.entered)

\* C27: the upward search returns a node exactly when some node reached from
\* the start node by one or more parent edges has a statement/reasoning
\* label; the node returned is such a node, the first one a depth-first
\* search in parent order finds; None is returned only when there is no
\* such ancestor, on cyclic graphs too.
C27_FindsStatementAncestor ==
    CnDone =>
        /\ (claim_node # None) <=> (\E n \in CnAncestors : StatementNode(n))
        /\ claim_node # None =>
              /\ claim_node.k = "str"
              /\ claim_node.v \in CnAncestors
              /\ StatementNode(claim_node.v)
        /\ claim_node = DepthFirst(CnStart, 1, {}).found

\* the search climbed over two marked nodes and found the statement node
\* on a cycle through the start node
C27_Witness ==
    /\ CnDone /\ claim_node # None
    /\ CnStart \in CnAncestors
    /\ claim_node.v \notin ParentsOf(CnStart)
    /\ Cardinality(checked_nodes) = 2


-----------------------------------------------------------------------------
(* Claims about the generality tie-break (SpecNarrow) *)

NarrowDone == most_general_qnode # Pending
CandIdx == 1..Len(qnode_dicts)
StemNamed == {i \in CandIdx : qnode_dicts[i].name = rsplit_head(pb)}
\* the parents of candidate i that are candidates themselves
ParentsInside(i) ==
    {j \in CandIdx : qnode_dicts[j].qnode \in
                        Range(original_master_table[qnode_dicts[i].qnode])}
\* the candidates reachable from i by at most n parent links inside the set
RECURSIVE Ancestors(_, _)
Ancestors(i, n) ==
    IF n = 0 THEN {i}
    ELSE LET A == Ancestors(i, n - 1)
         IN  A \cup UNION {ParentsInside(j) : j \in A}
\* the most-general candidates: no parent inside the set, and every other
\* candidate reaches them through parent links inside the set
MostGeneralCands ==
    {g \in CandIdx : /\ ParentsInside(g) = {}
                     /\ \A i \in CandIdx : g \in Ancestors(i, Len(qnode_dicts))}

\* C3: whenever exactly one candidate's name equals the stem of the PropBank
\* label, get_most_general_qnode returns that candidate, whatever the parent
\* links among the candidates are.
C3_StemNamedCandidateIsReturned ==
    (NarrowDone /\ Cardinality(StemNamed) = 1) =>
        \A i \in StemNamed : most_general_qnode = QDict(qnode_dicts[i])

\* C5: when no candidate name matches exactly and the parent links give a
\* unique most-general candidate G, the narrowing returns G, also when two
\* or more candidates share G as parent; it returns None only when no
\* candidate has a parent inside the candidate set.
C5_UniqueMostGeneralIsReturned ==
    (/\ NarrowDone
     /\ \A i \in CandIdx : qnode_dicts[i].name \notin {rsplit_head(pb), pb}) =>
        /\ Cardinality(MostGeneralCands) = 1 =>
              \A g \in MostGeneralCands : most_general_qnode = QDict(qnode_dicts[g])
        /\ most_general_qnode = None => \A i \in CandIdx : ParentsInside(i) = {}

\* C6: the narrowing terminates for every candidate set and parent table,
\* parent links that form a cycle among the candidates included.
C6_NarrowDownTerminates == most_general_qnode # Raise("RecursionError")

-----------------------------------------------------------------------------
(* Claims about the string-similarity tie-break (SpecSim) *)

SimDone == best_qnode # Pending
Score(i) == Dice(get_string_bigrams(rsplit_head(pb)),
                 get_string_bigrams(qnode_dicts[i].name))
Defined(i) == Score(i).den > 0
\* the candidates of maximal Dice score
MaxDice == {i \in CandIdx : \A j \in CandIdx : ~Greater(Score(j), Score(i))}

\* C9: get_best_qnode_by_string_similarity returns, among the candidates of
\* maximal Dice score, the one that comes first in the candidate list, also
\* when several candidates carry the same name.
C9_EarliestBestCandidateIsReturned ==
    (SimDone /\ \A i \in CandIdx : Defined(i)) =>
        best_qnode = QDict(qnode_dicts[Min(MaxDice)])

\* C10: the string-similarity tie-break never fails for stems and names of
\* any length from one character up: it returns a candidate, and when every
\* score is zero or no bigram can be formed it is the first candidate.
C10_SimilarityNeverFails ==
    SimDone =>
        /\ best_qnode.k = "dict"
        /\ (\A i \in CandIdx : Score(i).num = 0) =>
              best_qnode = QDict(qnode_dicts[1])


-----------------------------------------------------------------------------
(* Claims about disambiguate_with_amr (SpecDisamb) *)

DisDone == claim_semantics # Pending
PbLabels == pb_label_list(amr)
MasterCands(label) == TableGet(pbs_to_qnodes_master, label)
StemNamedMaster(label) ==
    {i \in 1..Len(MasterCands(label)) :
        MasterCands(label)[i].name = rsplit_head(label)}
\* the graph has one PropBank label, without overlay entry and with several
\* master candidates of which exactly one is named by the label's stem
StemScenario(label) ==
    /\ PbLabels # <<>> /\ Range(PbLabels) = {label}
    /\ TableGet(pbs_to_qnodes_overlay, label) = <<>>
    /\ Len(MasterCands(label)) > 1
    /\ Cardinality(StemNamedMaster(label)) = 1

\* C4: when the graph's PropBank label has no overlay entry and several
\* master candidates, exactly one of them named by the label's stem,
\* disambiguate returns a ClaimSemantics whose event is that candidate,
\* whatever the parent links among the candidates are.
C4_StemNamedCandidateIsEvent ==
    \A label \in DisLabels :
        (DisDone /\ StemScenario(label)) =>
            /\ claim_semantics.k = "ClaimSemantics"
            /\ \A i \in StemNamedMaster(label) :
                  /\ claim_semantics.event.qnode_id = Str(MasterCands(label)[i].qnode)
                  /\ claim_semantics.event.text = Str(MasterCands(label)[i].name)
                  /\ claim_semantics.event.from_query = Str(label)


NoFrameNode == \A n \in NodesOf(amr) : ~FRAME_LABEL_PATTERN(amr.nodes[n])

\* C11: for every graph none of whose node labels matches the frame pattern,
\* disambiguate returns None and raises no error.
C11_NoFrameGivesNone ==
    (DisDone /\ NoFrameNode) => claim_semantics = None

\* a graph of two nodes without frame label, both tables filled
C11_Witness ==
    /\ DisDone /\ NoFrameNode /\ Len(amr.nodes) = 2
    /\ DOMAIN pbs_to_qnodes_master # {} /\ DOMAIN pbs_to_qnodes_overlay # {}
    /\ claim_semantics = None

\* C12: when the graph has no frame-pattern node, a call of disambiguate has
\* no effect besides its return value: the graph and the persisted table
\* files are as they were before the call, whether or not the derived table
\* files existed.
C12_NoFrameNoEffect ==
    [][(claim_semantics = Pending /\ NoFrameNode) =>
          UNCHANGED <<amr, original_master_table, master_table_exists,
                      overlay_table_exists, pbs_to_qnodes_master,
                      pbs_to_qnodes_overlay>>]_vars

RootLabel == PbLabels[1]
OverlayPass == get_overlay_result(PbLabels, pbs_to_qnodes_overlay, RootLabel)
MasterPass == get_master_result(PbLabels, pbs_to_qnodes_master,
                                original_master_table, qnode_order, RootLabel)
MasterPassRun == OverlayPass.best = EmptyDict \/ ~OverlayPass.from_root

\* C13: the selected entry is the master pass's result exactly when the
\* master pass was run and either its result came from the root label or the
\* overlay pass produced nothing; in every other case the selected entry is
\* the overlay pass's result, even one of a non-root label.
C13_SelectionRule ==
    (DisDone /\ PbLabels # <<>> /\ claim_semantics.k = "ClaimSemantics") =>
        IF MasterPassRun /\ (MasterPass.from_root \/ OverlayPass.best = EmptyDict)
        THEN claim_semantics = ClaimSemantics(MasterPass.best)
        ELSE claim_semantics = ClaimSemantics(OverlayPass.best)

\* both passes answered from a non-root label and the overlay's entry won
C13_Witness ==
    /\ DisDone /\ PbLabels # <<>>
    /\ OverlayPass.best # EmptyDict /\ ~OverlayPass.from_root
    /\ MasterPass.best # EmptyDict /\ ~MasterPass.from_root
    /\ claim_semantics = ClaimSemantics(OverlayPass.best)

EmptyTable == Table(<<>>, <<>>)
OverlayRootCands == TableGet(pbs_to_qnodes_overlay, RootLabel)

\* C14: whenever the overlay table has an entry for the root label, the
\* returned event is an overlay entry of the root label, and the master
\* table is not consulted: the result is what it is with an empty master
\* table.
C14_OverlayRootEntryDecides ==
    (DisDone /\ PbLabels # <<>> /\ OverlayRootCands # <<>>) =>
        /\ claim_semantics.k = "ClaimSemantics" =>
              /\ claim_semantics.event.from_query = Str(RootLabel)
              /\ \E i \in 1..Len(OverlayRootCands) :
                    /\ claim_semantics.event.qnode_id = Str(OverlayRootCands[i].qnode)
                    /\ claim_semantics.event.text = Str(OverlayRootCands[i].name)
        /\ claim_semantics =
              disambiguate_with_amr(amr, EmptyTable, pbs_to_qnodes_overlay,
                                    original_master_table, qnode_order)

\* the root label has two overlay entries and several master candidates
C14_Witness ==
    /\ DisDone /\ PbLabels # <<>>
    /\ Len(OverlayRootCands) = 2
    /\ Len(TableGet(pbs_to_qnodes_master, RootLabel)) > 1
    /\ claim_semantics.k = "ClaimSemantics"
    /\ claim_semantics.event.qnode_id = Str("Q4")


\* the labels of the graph that match the frame pattern, and the entries
\* the two tables have for a label
FrameNodes == {n \in NodesOf(amr) : FRAME_LABEL_PATTERN(amr.nodes[n])}
FrameLabels == {amr.nodes[n] : n \in FrameNodes}
EntriesFor(label) ==
    Range(TableGet(pbs_to_qnodes_overlay, label))
        \cup Range(TableGet(pbs_to_qnodes_master, label))

\* C28: whenever disambiguate returns a ClaimSemantics, its event carries the
\* qnode id, name and PropBank label of an entry present in the overlay or
\* master table; when the graph has PropBank labels but neither table has an
\* entry for any of them, disambiguate returns None, not a ClaimSemantics
\* with an empty event.
C28_EventIsTableEntry ==
    DisDone =>
        /\ claim_semantics.k = "ClaimSemantics" =>
              \E label \in FrameLabels : \E e \in EntriesFor(label) :
                  claim_semantics.event =
                      [text |-> Str(e.name), from_query |-> Str(label),
                       qnode_id |-> Str(e.qnode)]
        /\ (FrameLabels # {} /\ \A label \in FrameLabels : EntriesFor(label) = {})
              => claim_semantics = None

\* the label of the first node that matches the frame pattern
FirstFrameLabel == amr.nodes[Min(FrameNodes)]

\* C30: whenever the overlay table or the master table has an entry for the
\* root label, the selected event comes from the root label (its from_query
\* is the root label); an entry of another label is selected only when
\* neither table has an entry for the root label.
C30_RootEntryWins ==
    (/\ DisDone /\ FrameNodes # {}
     /\ claim_semantics.k = "ClaimSemantics"
     /\ EntriesFor(FirstFrameLabel) # {}) =>
        claim_semantics.event.from_query = Str(FirstFrameLabel)

\* the overlay had an entry for another label only, the master table one
\* for the root label: the master's entry was selected
C30_Witness ==
    /\ DisDone /\ FrameNodes # {}
    /\ TableGet(pbs_to_qnodes_overlay, FirstFrameLabel) = <<>>
    /\ \E label \in FrameLabels : TableGet(pbs_to_qnodes_overlay, label) # <<>>
    /\ TableGet(pbs_to_qnodes_master, FirstFrameLabel) # <<>>
    /\ claim_semantics.k = "ClaimSemantics"
    /\ claim_semantics.event.from_query = Str(FirstFrameLabel)

-----------------------------------------------------------------------------
(* Claims about the Alignment Resolver (SpecAlign) *)

AlignDone == node_to_token_dict # Pending
\* the index of a token text in the sentence (its tokens are distinct)
TokenIndex(t) == CHOOSE i \in 1..Len(amr.tokens) : amr.tokens[i] = t
\* the non-punctuation tokens some alignment gives to node n
AlignedTokens(n) ==
    UNION {{amr.tokens[i] : i \in Range(alignments[a].tokens)} :
             a \in {b \in 1..Len(alignments) : n \in Range(alignments[b].nodes)}}
      \ PunctTokens

\* C15: for every list of alignments, in any order and with a node in one or
\* several of them, the text of a node lists the node's aligned
\* non-punctuation tokens by increasing token index.
C15_TokensInSentenceOrder ==
    AlignDone =>
        \A n \in DOMAIN node_to_token_dict.v :
            LET text == node_to_token_dict.v[n]
            IN  /\ Range(text) = AlignedTokens(n)
                /\ \A i, j \in 1..Len(text) :
                      i < j => TokenIndex(text[i]) <= TokenIndex(text[j])


-----------------------------------------------------------------------------
(* Claims about the derived table files (SpecCalls) *)

\* C20: across any sequence of disambiguate calls in one process, a derived
\* table file (master or overlay) is generated only by a call that finds the
\* file missing, hence at most once per table, and a derived file that
\* exists is never rewritten or modified.
C20_GeneratedOnlyWhenMissing ==
    /\ [](master_generated <= 1 /\ overlay_generated <= 1)
    /\ [][/\ master_generated' # master_generated => ~master_table_exists
          /\ overlay_generated' # overlay_generated => ~overlay_table_exists
          /\ master_table_exists =>
                /\ master_table_exists'
                /\ pbs_to_qnodes_master' = pbs_to_qnodes_master
          /\ overlay_table_exists =>
                /\ overlay_table_exists'
                /\ pbs_to_qnodes_overlay' = pbs_to_qnodes_overlay]_vars

\* two calls were made: the first one generated the missing master table,
\* the older overlay file was left as it was
C20_Witness ==
    /\ calls_made = 2
    /\ master_generated = 1 /\ overlay_generated = 0
    /\ pbs_to_qnodes_master = generate_master_dict(QeMaster)
    /\ pbs_to_qnodes_overlay = Table(<<>>, <<O2>>)


-----------------------------------------------------------------------------
(* Claims about concurrent workers (SpecWorkers) *)

\* C21: when several workers run disambiguate concurrently, starting with a
\* derived table file missing, no worker loads a table file that is not
\* completely written: every load gives a worker the complete table.
C21_WorkersLoadCompleteTables ==
    \A w \in Workers :
        /\ workers[w].master \in {Pending, QDict(pbs_to_qnodes_master)}
        /\ workers[w].overlay \in {Pending, QDict(pbs_to_qnodes_overlay)}


-----------------------------------------------------------------------------
(* Claims about get_wikidata_for_labeled_args (SpecArgs) *)

ArgsDone == args_to_qnodes # Pending
PlainItems == SelectSeq(labeled_args, LAMBDA item : "-" \notin Range(item[2]))

\* C22: the entity search is called exactly once for each role whose text
\* has no hyphen and never for a hyphenated text; the keys of the returned
\* mapping are exactly the roles with hyphen-free text, and a role whose
\* search gives no candidate is present with None.
C22_SearchedOncePerPlainRole ==
    ArgsDone =>
        /\ kgtk_calls = [i \in 1..Len(PlainItems) |-> PlainItems[i][2]]
        /\ args_to_qnodes.k = "dict"
        /\ DOMAIN args_to_qnodes.v = {PlainItems[i][1] : i \in 1..Len(PlainItems)}
        /\ \A i \in 1..Len(PlainItems) :
              (kgtk[PlainItems[i][2]].options = <<>>
               /\ kgtk[PlainItems[i][2]].all_options = <<>>)
                 => args_to_qnodes.v[PlainItems[i][1]] = None

\* a hyphenated text and a plain text without candidates were given
C22_Witness ==
    /\ ArgsDone
    /\ Len(labeled_args) = 2
    /\ labeled_args[1][2] = S_sars_2
    /\ labeled_args[2][2] = S_flu
    /\ kgtk_calls = <<S_flu>>
    /\ args_to_qnodes.v[labeled_args[2][1]] = None

-----------------------------------------------------------------------------
(* Claims about the Government rule (SpecGov) *)

\* the first edge at which the Government rule returns
GovReached ==
    Min({i \in 1..Len(amr.edges) :
           \/ amr.nodes[amr.edges[i][1]] = L_government_organization
           \/ /\ amr.edges[i][2] = ":ARG0"
              /\ amr.nodes[amr.edges[i][3]] \in place_types} \cup {Len(amr.edges) + 1})
\* the places looked at for the child of that edge: the child, or else the
\* places one hop further down
GovPlaces(child) ==
    IF amr.nodes[child] \in place_types THEN {child}
    ELSE {e[3] : e \in {x \in Range(amr.edges) :
                          x[1] = child /\ amr.nodes[x[3]] \in place_types}}
NameNodes(place) ==
    LET es == SelectSeq(amr.edges, LAMBDA e : e[1] = place /\ e[2] = ":name")
    IN  [i \in 1..Len(es) |-> es[i][3]]
Named(place) ==
    /\ NameNodes(place) # <<>>
    /\ \A n \in Range(NameNodes(place)) : n \in DOMAIN XStrings
PlaceName(place) ==
    Flatten([i \in 1..Len(NameNodes(place)) |-> XStrings[NameNodes(place)[i]]])
GovScenario ==
    /\ XDone
    /\ Contains(claim_template, S_Government_X)
    /\ GovReached <= Len(amr.edges)
    /\ amr.nodes[amr.edges[GovReached][1]] = L_government_organization
    /\ GovPlaces(amr.edges[GovReached][3]) # {}
    /\ \A c \in GovPlaces(amr.edges[GovReached][3]) : Named(c)

\* C23: in the Government rule, when the edge reached has a parent labelled
\* government-organization and a place name N is resolved for its child
\* (directly or one hop further down), the X-variable text is N followed by
\* "government" if the token "government" occurs in the sentence's tokens,
\* and exactly N otherwise.
C23_GovernmentTokenAppended ==
    GovScenario =>
        \E c \in GovPlaces(amr.edges[GovReached][3]) :
            x_variable =
               XVariable(Str(PlaceName(c) \o
                             (IF "government" \in Range(amr.tokens)
                              THEN <<"government">> ELSE <<>>)))

\* a name resolved one hop further down, in a sentence with "government"
C23_Witness ==
    /\ GovScenario
    /\ amr.nodes[amr.edges[GovReached][3]] \notin place_types
    /\ x_variable = XVariable(Str(<<"China", "government">>))

\* a name resolved directly, in a sentence without "government"
C23_DirectName ==
    /\ GovScenario
    /\ amr.nodes[amr.edges[GovReached][3]] \in place_types
    /\ x_variable = XVariable(Str(<<"China">>))

\* C29: every X-variable mention returned has a non-empty text: when a rule
\* matches an edge but resolves no name or description for it (a
\* government-organization node without place below it), the result is
\* None, never a mention whose text is empty or missing.
C29_MentionTextNeverEmpty ==
    (XDone /\ x_variable.k = "XVariable") =>
        /\ x_variable.text.k = "str"
        /\ x_variable.text.v # <<>>

-----------------------------------------------------------------------------
(* Claims about remove_speech_tags (SpecSpeech) *)

SpeechDone == arg_node # Pending
\* the phrase's last word occurs in the sentence and every occurrence of it
\* is tagged VERB or AUX
LastWordIsVerb ==
    /\ full_claimer # None /\ full_claimer.v # <<>>
    /\ \E i \in 1..Len(spacied_claim_sentence) :
          spacied_claim_sentence[i].text = full_claimer.v[Len(full_claimer.v)]
    /\ \A i \in 1..Len(spacied_claim_sentence) :
          spacied_claim_sentence[i].text = full_claimer.v[Len(full_claimer.v)]
             => spacied_claim_sentence[i].pos_ \in {"VERB", "AUX"}

-----------------------------------------------------------------------------
(* Claims about Claim.get_offsets_for_text (SpecOffsets) *)

\* C25: span recovery is a function of its input: a call of
\* get_offsets_for_text for a text returns the same span, or the same
\* absence, as the first call for that text on that claim.
C25_SameTextSameSpan ==
    offsets_calls > 0 => offsets_result = first_results[offsets_text.v]

\* C26: get_offsets_for_text only reads the token -> offsets table: no call
\* changes the table, the order of a token's offset list included.
C26_OffsetTableOnlyRead ==
    [][tokens_to_offsets' = tokens_to_offsets]_vars

====
